---- MODULE Spec2Model ----
(***************************************************************************)
(* A model of the DOS 3.3 disk-image core of apple2-mcp                    *)
(* (src/src/apple2_mcp/disktools.py): the volume buffer, sector read and   *)
(* write, format, the free-sector allocator, the catalog and the program   *)
(* writer.                                                                 *)
(*                                                                         *)
(* Representation.  A sector is a tuple of BYTES_PER_SECTOR bytes; the     *)
(* code's 0-based offset k is position k+1 of the tuple.  The volume       *)
(* buffer self.data is the record [sec, len]: len is len(self.data) and    *)
(* sec maps the linear sector number track*16+sector of every sector that  *)
(* holds a non-zero byte to its 256 bytes; a sector absent from sec is     *)
(* 256 zero bytes.  Every buffer of whole sectors has exactly one such     *)
(* representation, so equality of records is equality of buffers.          *)
(* A text (file name) is the tuple of its character codes, all ASCII.      *)
(***************************************************************************)
EXTENDS Integers, Sequences, FiniteSets, TLC

\* ------------------------------------------------------------ constants
TRACKS == 35
SECTORS_PER_TRACK == 16
BYTES_PER_SECTOR == 256
DISK_SIZE == TRACKS * SECTORS_PER_TRACK * BYTES_PER_SECTOR
VTOC_TRACK == 17
VTOC_SECTOR == 0
CATALOG_TRACK == 17
FIRST_CATALOG_SECTOR == 15
FILE_TYPE_APPLESOFT_BASIC == 2

\* ------------------------------------------------------------ helpers
Min(a, b) == IF a < b THEN a ELSE b
Max(a, b) == IF a > b THEN a ELSE b

\* bit n of x: (x >> n) & 1
Bit(x, n) == (x \div (2 ^ n)) % 2

\* The least and the greatest element of a non-empty set of integers
Least(S) == CHOOSE x \in S : \A y \in S : x <= y
Greatest(S) == CHOOSE x \in S : \A y \in S : x >= y

\* n zero bytes: bytes(n), bytearray(n)
Zeros(n) == [i \in 1..n |-> 0]

ZeroSector == Zeros(BYTES_PER_SECTOR)

\* b[off] = v on a bytearray b (off is the code's 0-based offset)
SetByte(b, off, v) == [b EXCEPT ![off + 1] = v]

\* Python's b[lo:hi] on a sequence: both ends clipped to the length
Slice(b, lo, hi) == SubSeq(b, Min(lo, Len(b)) + 1, Min(hi, Len(b)))

\* ------------------------------------------------------------ addresses
\* An offset computed with 13 sectors to the track
TsToOffsetThirteen(track, sector) == (track * 13 + sector) * BYTES_PER_SECTOR

ts_to_offset(track, sector) == (track * SECTORS_PER_TRACK + sector) * BYTES_PER_SECTOR

offset_to_ts(offset) ==
    LET sector_num == offset \div BYTES_PER_SECTOR
    IN  <<sector_num \div SECTORS_PER_TRACK, sector_num % SECTORS_PER_TRACK>>

\* ------------------------------------------------------------ the buffer
\* bytearray(DISK_SIZE): the buffer of a new volume
BlankData == [sec |-> <<>>, len |-> DISK_SIZE]

\* self.data[offset:offset + BYTES_PER_SECTOR] for a sector-aligned offset
SectorAt(d, offset) ==
    LET n == offset \div BYTES_PER_SECTOR
    IN  IF offset + BYTES_PER_SECTOR > d.len THEN <<>>
        ELSE IF n \in DOMAIN d.sec THEN d.sec[n] ELSE ZeroSector

read_sector(d, track, sector) == SectorAt(d, ts_to_offset(track, sector))

\* The length of a buffer of length len after the slice assignment
\* b[lo:hi] = x with len(x) = n
SliceAssignLen(len, lo, hi, n) ==
    LET l == Min(lo, len)
        h == Max(Min(hi, len), l)
    IN  len - (h - l) + n

\* The buffer with the sector at a sector-aligned offset inside it replaced
PutSector(d, offset, bytes, newlen) ==
    LET n == offset \div BYTES_PER_SECTOR
        rest == [k \in (DOMAIN d.sec) \ {n} |-> d.sec[k]]
    IN  [sec |-> IF bytes = ZeroSector THEN rest @@ <<>> ELSE (n :> bytes) @@ rest,
         len |-> newlen]

\* write_sector without its zero padding: the bytes after the written ones are kept
WriteSectorNoPad(d, track, sector, bytes) ==
    IF Len(bytes) > BYTES_PER_SECTOR
    THEN [ok |-> FALSE, err |-> "size", data |-> d]
    ELSE LET offset == ts_to_offset(track, sector)
             old == SectorAt(d, offset)
         IN  [ok |-> TRUE, err |-> "",
              data |-> PutSector(d, offset,
                          bytes \o SubSeq(old, Len(bytes) + 1, BYTES_PER_SECTOR),
                          d.len)]

\* write_sector checking the size only after the bytes are stored
WriteSectorLateCheck(d, track, sector, bytes) ==
    LET offset == ts_to_offset(track, sector)
        kept == Slice(bytes, 0, BYTES_PER_SECTOR)
    IN  [ok |-> Len(bytes) <= BYTES_PER_SECTOR,
         err |-> IF Len(bytes) > BYTES_PER_SECTOR THEN "size" ELSE "",
         data |-> PutSector(d, offset,
                     kept \o Zeros(BYTES_PER_SECTOR - Len(kept)), d.len)]

\* DOS33Disk.write_sector for a sector inside the buffer: the size check, the
\* slice assignment of the bytes, and the zero padding of the rest
write_sector(d, track, sector, bytes) ==
    IF Len(bytes) > BYTES_PER_SECTOR
    THEN [ok |-> FALSE, err |-> "size", data |-> d]
    ELSE LET offset == ts_to_offset(track, sector)
             old == SectorAt(d, offset)
             n == Len(bytes)
             \* self.data[offset:offset + len(data)] = data
             len1 == SliceAssignLen(d.len, offset, offset + n, n)
             s1 == bytes \o SubSeq(old, n + 1, BYTES_PER_SECTOR)
             \* self.data[offset + len(data):offset + 256] = bytes(256 - len(data))
             len2 == IF n < BYTES_PER_SECTOR
                     THEN SliceAssignLen(len1, offset + n, offset + BYTES_PER_SECTOR,
                                         BYTES_PER_SECTOR - n)
                     ELSE len1
             s2 == IF n < BYTES_PER_SECTOR
                   THEN SubSeq(s1, 1, n) \o Zeros(BYTES_PER_SECTOR - n)
                   ELSE s1
         IN  [ok |-> TRUE, err |-> "", data |-> PutSector(d, offset, s2, len2)]

\* ------------------------------------------------------------ image file
\* The file system holds at most one image file, of this name; "" stands for
\* the filename None
ImageName == "disk.dsk"

\* A save that leaves out the sectors after the last one that holds a byte
\* other than zero
SaveUsedSectors(d, self_filename, filename) ==
    LET name == IF filename # "" THEN filename ELSE self_filename
    IN  IF name = ""
        THEN [ok |-> FALSE, err |-> "no filename", filename |-> self_filename, content |-> d]
        ELSE [ok |-> TRUE, err |-> "", filename |-> name,
              content |-> [d EXCEPT !.len = IF DOMAIN d.sec = {} THEN 0
                                             ELSE (Greatest(DOMAIN d.sec) + 1) * BYTES_PER_SECTOR]]

\* DOS33Disk.save (lines 102-109): the file name is the argument or, without
\* one, self.filename; the bytes of self.data are written to the file, which
\* is opened 'wb', and self.filename becomes that name
save(d, self_filename, filename) ==
    LET name == IF filename # "" THEN filename ELSE self_filename
    IN  IF name = ""
        THEN [ok |-> FALSE, err |-> "no filename", filename |-> self_filename, content |-> d]
        ELSE [ok |-> TRUE, err |-> "", filename |-> name, content |-> d]

\* DOS33Disk.__init__ (lines 79-85): self.data is the bytes of the file when
\* a name is given and the file exists, and bytearray(DISK_SIZE) otherwise
Open(filename, exists, content) ==
    IF filename # "" /\ exists THEN content ELSE BlankData

\* ------------------------------------------------------------ format
\* A bitmap that marks track 17 free like every other track
FormatBitmapByteAllFree(track, k) == IF k < 2 THEN 255 ELSE 0

\* The VTOC that format builds (lines 117-139): the header fields, and a free
\* bitmap of 4 bytes per track, 0xFF 0xFF 0x00 0x00 for every track but 17
\* (k is the byte's position 0..3 in the track's field)
FormatBitmapByte(track, k) == IF track = 17 THEN 0 ELSE IF k < 2 THEN 255 ELSE 0

FormatVtoc(volume_num) ==
    [i \in 1..BYTES_PER_SECTOR |->
        LET off == i - 1
        IN  IF off = 0 THEN 4
            ELSE IF off = 1 THEN CATALOG_TRACK
            ELSE IF off = 2 THEN FIRST_CATALOG_SECTOR
            ELSE IF off = 3 THEN 3
            ELSE IF off = 6 THEN volume_num
            ELSE IF off = 39 THEN 122
            ELSE IF off = 48 THEN 18
            ELSE IF off = 49 THEN 1
            ELSE IF off = 52 THEN TRACKS
            ELSE IF off = 53 THEN SECTORS_PER_TRACK
            ELSE IF off = 54 THEN BYTES_PER_SECTOR % 256
            ELSE IF off = 55 THEN BYTES_PER_SECTOR \div 256
            ELSE IF off >= 56 /\ off < 56 + TRACKS * 4
                 THEN FormatBitmapByte((off - 56) \div 4, (off - 56) % 4)
            ELSE 0]

\* A catalog sector whose next pointer is set in sector 1 as well
FormatCatalogSectorOpenEnd(sector) ==
    [i \in 1..BYTES_PER_SECTOR |->
        IF i - 1 = 1 THEN CATALOG_TRACK
        ELSE IF i - 1 = 2 THEN sector - 1
        ELSE 0]

\* The empty catalog sector format writes at (17, sector): only its next pointer
FormatCatalogSector(sector) ==
    [i \in 1..BYTES_PER_SECTOR |->
        IF sector > 1 /\ i - 1 = 1 THEN CATALOG_TRACK
        ELSE IF sector > 1 /\ i - 1 = 2 THEN sector - 1
        ELSE 0]

\* The loop of lines 144-153 for the sectors hi, hi-1, ..., lo, in that order.
\* The range is halved only to keep the depth of the evaluation logarithmic.
RECURSIVE FormatCatalog(_, _, _)
FormatCatalog(d, hi, lo) ==
    IF d.len < 0 \/ hi < lo THEN d
    ELSE IF hi = lo
    THEN write_sector(d, CATALOG_TRACK, hi, FormatCatalogSector(hi)).data
    ELSE FormatCatalog(FormatCatalog(d, hi, (hi + lo) \div 2 + 1), (hi + lo) \div 2, lo)

\* A format that does not clear the buffer first
FormatKeepsBuffer(d, volume_num) ==
    FormatCatalog(
        write_sector(d, VTOC_TRACK, VTOC_SECTOR, FormatVtoc(volume_num)).data,
        FIRST_CATALOG_SECTOR, 1)

\* DOS33Disk.format: clear the buffer, write the VTOC, write the catalog chain
format(d, volume_num) ==
    FormatCatalog(
        write_sector(BlankData, VTOC_TRACK, VTOC_SECTOR, FormatVtoc(volume_num)).data,
        FIRST_CATALOG_SECTOR, 1)

\* ------------------------------------------------------------ allocator
\* A search order that starts at track 0 and goes up
TrackOrderAscending ==
    [i \in 1..(TRACKS - 1) |-> IF i <= 17 THEN i - 1 ELSE i]

\* A search order that stops before track 0: range(16, 0, -1)
TrackOrderNoTrack0 ==
    [i \in 1..(TRACKS - 2) |-> IF i <= TRACKS - 18 THEN 17 + i ELSE TRACKS - 1 - i]

\* list(range(18, TRACKS)) + list(range(16, -1, -1)), as a 1-based sequence
TrackOrder ==
    [i \in 1..(TRACKS - 1) |-> IF i <= TRACKS - 18 THEN 17 + i ELSE TRACKS - 1 - i]

\* The 16-bit bitmap of a track: vtoc[off] | (vtoc[off + 1] << 8), off = 0x38 + track*4
TrackBitmap(vtoc, track) == vtoc[56 + track * 4 + 1] + 256 * vtoc[56 + track * 4 + 2]

\* The sectors of range(SECTORS_PER_TRACK) whose bit is set in the bitmap
FreeSectors(bitmap) == {s \in 0..(SECTORS_PER_TRACK - 1) : Bit(bitmap, s) = 1}

\* The inner loop of lines 226-233: the first sector of range(16), ascending, whose
\* bit is set, or -1
FirstFreeSector(bitmap) ==
    IF bitmap = 0 THEN -1 ELSE Least(FreeSectors(bitmap))

\* The positions of the track order whose track the loop does not skip and finds
\* a free sector in: the inner loop finds one exactly when the 16-bit bitmap is
\* not zero
FreeTracks(vtoc) ==
    {i \in 1..Len(TrackOrder) :
        TrackOrder[i] # 17 /\ TrackBitmap(vtoc, TrackOrder[i]) # 0}

\* A search that falls back on (18, 0) when the loop finds no free sector
FindFreeAmongOrFirst(vtoc, cand) ==
    IF cand = {} THEN <<18, 0>>
    ELSE <<TrackOrder[Least(cand)],
           FirstFreeSector(TrackBitmap(vtoc, TrackOrder[Least(cand)]))>>

\* The outer loop of lines 219-233: the first (track, sector) found free, going
\* through the track order, or <<>> when the loop ends without one
FindFreeAmong(vtoc, cand) ==
    IF cand = {} THEN <<>>
    ELSE <<TrackOrder[Least(cand)],
           FirstFreeSector(TrackBitmap(vtoc, TrackOrder[Least(cand)]))>>

FindFree(vtoc) == FindFreeAmong(vtoc, FreeTracks(vtoc))

\* A bitmap update that marks the sector found and the sector after it used
ClearedBitmapTwo(bitmap, sector) ==
    bitmap - 2 ^ sector
           - (IF sector < 15 /\ (bitmap \div 2 ^ (sector + 1)) % 2 = 1
              THEN 2 ^ (sector + 1) ELSE 0)

\* bitmap & ~(1 << sector) for a bitmap whose bit `sector` is set
ClearedBitmap(bitmap, sector) == bitmap - 2 ^ sector

\* The VTOC with the bit of (track, sector) cleared (lines 229-231)
StoreBitmap(vtoc, track, bitmap) ==
    SetByte(SetByte(vtoc, 56 + track * 4, bitmap % 256),
            56 + track * 4 + 1, (bitmap \div 256) % 256)

\* A VTOC update that also notes the track in the last-allocated-track byte 0x30
ClearBitNotesTrack(vtoc, track, sector) ==
    SetByte(StoreBitmap(vtoc, track, ClearedBitmap(TrackBitmap(vtoc, track), sector)),
            48, track)

ClearBit(vtoc, track, sector) ==
    StoreBitmap(vtoc, track, ClearedBitmap(TrackBitmap(vtoc, track), sector))

\* allocate_sector that returns the sector found but does not store the VTOC
AllocateFoundNoPersist(d, vtoc, found) ==
    IF found = <<>>
    THEN [ok |-> FALSE, err |-> "disk full", data |-> d, ret |-> <<>>]
    ELSE [ok |-> TRUE, err |-> "", data |-> d, ret |-> found]

\* Lines 228-235 of allocate_sector, given the VTOC read and the result of the search
AllocateFound(d, vtoc, found) ==
    IF found = <<>>
    THEN [ok |-> FALSE, err |-> "disk full", data |-> d, ret |-> <<>>]
    ELSE [ok |-> TRUE, err |-> "",
          data |-> write_sector(d, VTOC_TRACK, VTOC_SECTOR,
                                ClearBit(vtoc, found[1], found[2])).data,
          ret |-> found]

AllocateIn(d, vtoc) == AllocateFound(d, vtoc, FindFree(vtoc))

\* DOS33Disk.allocate_sector
allocate_sector(d) == AllocateIn(d, read_sector(d, VTOC_TRACK, VTOC_SECTOR))

\* ------------------------------------------------------------ catalog
\* str.rstrip() strips these character codes (Python's whitespace below 128)
Whitespace == {9, 10, 11, 12, 13, 28, 29, 30, 31, 32}

rstrip(t) ==
    IF \A i \in 1..Len(t) : t[i] \in Whitespace THEN <<>>
    ELSE SubSeq(t, 1, Greatest({i \in 1..Len(t) : t[i] \notin Whitespace}))

\* str.upper() of one ASCII character
UpperChar(c) == IF c >= 97 /\ c <= 122 THEN c - 32 ELSE c

upper(t) == [i \in 1..Len(t) |-> UpperChar(t[i])]

\* str.ljust(n): spaces appended up to n characters
ljust(t, n) == IF Len(t) >= n THEN t ELSE t \o [i \in 1..(n - Len(t)) |-> 32]

\* ord(c) | 0x80 and b & 0x7F
SetHighBit(c) == IF c % 256 >= 128 THEN c ELSE c + 128
StripHighBit(b) == b % 128

\* Slot offsets counted from the start of the sector: i * 0x23
EntryOffsetFromZero(i) == i * 35

\* The offset of entry slot i of a catalog sector: 0x0B + i * 0x23
EntryOffset(i) == 11 + i * 35

\* The type tag of lines 188-194
FileTypeChar(file_type) ==
    IF Bit(file_type, 1) = 1 THEN "A"
    ELSE IF Bit(file_type, 0) = 1 THEN "I"
    ELSE IF Bit(file_type, 2) = 1 THEN "B"
    ELSE "T"

\* The dict of lines 198-206 for the entry at entry_offset of a catalog sector
DecodeEntry(cat_data, entry_offset) ==
    LET file_type == cat_data[entry_offset + 2 + 1]
    IN  [name |-> rstrip([j \in 1..30 |-> StripHighBit(cat_data[entry_offset + 3 + j])]),
         type |-> FileTypeChar(file_type),
         locked |-> Bit(file_type, 7) = 1,
         sectors |-> cat_data[entry_offset + 33 + 1] + 256 * cat_data[entry_offset + 34 + 1],
         ts_track |-> cat_data[entry_offset + 1],
         ts_sector |-> cat_data[entry_offset + 1 + 1],
         raw_type |-> file_type]

\* The slots of range(7) that the loop of lines 167-206 reads, in order
SlotIndexes == <<0, 1, 2, 3, 4, 5, 6>>

\* Only a slot whose track byte is 0x00 is skipped
SlotIsEmpty(cat_data, i) == cat_data[EntryOffset(i) + 1] = 0

\* A slot is skipped when its track byte is 0x00 (empty) or 0xFF (deleted)
SlotIsFree(cat_data, i) ==
    cat_data[EntryOffset(i) + 1] = 0 \/ cat_data[EntryOffset(i) + 1] = 255

\* The loop of lines 167-206 over the slots of one catalog sector
LiveSlots(cat_data) ==
    SelectSeq(SlotIndexes,
              LAMBDA i : EntryOffset(i) + 35 <= BYTES_PER_SECTOR /\ ~SlotIsFree(cat_data, i))

EntriesOfSlots(cat_data, slots) ==
    [k \in 1..Len(slots) |-> DecodeEntry(cat_data, EntryOffset(slots[k]))]

SectorEntries(cat_data) == EntriesOfSlots(cat_data, LiveSlots(cat_data))

\* The loop of lines 164-210 from the catalog sector (cat_track, cat_sector)
RECURSIVE CatalogFrom(_, _, _)
RECURSIVE CatalogOf(_, _)
CatalogFrom(d, cat_track, cat_sector) ==
    IF cat_track = 0 THEN <<>>
    ELSE CatalogOf(d, read_sector(d, cat_track, cat_sector))

CatalogOf(d, cat_data) ==
    SectorEntries(cat_data) \o CatalogFrom(d, cat_data[2], cat_data[3])

\* DOS33Disk.catalog
catalog(d) ==
    LET vtoc == read_sector(d, VTOC_TRACK, VTOC_SECTOR)
    IN  CatalogFrom(d, vtoc[2], vtoc[3])

\* A slot search that looks at six slots of a catalog sector only: range(6)
FirstFreeSlotOfSix(cat_data) ==
    IF \A i \in 0..5 : ~SlotIsFree(cat_data, i) THEN -1
    ELSE Least({i \in 0..5 : SlotIsFree(cat_data, i)})

\* A slot search that takes the first empty slot (0x00) of the sector and a
\* deleted one (0xFF) only when no slot is empty
FirstFreeSlotEmptyFirst(cat_data) ==
    IF \E i \in 0..6 : cat_data[11 + 35 * i + 1] = 0
    THEN Least({i \in 0..6 : cat_data[11 + 35 * i + 1] = 0})
    ELSE IF \E i \in 0..6 : cat_data[11 + 35 * i + 1] = 255
    THEN Least({i \in 0..6 : cat_data[11 + 35 * i + 1] = 255})
    ELSE -1

\* The first slot of range(7) whose track byte is 0x00 or 0xFF, or -1 (lines 247-249)
FirstFreeSlot(cat_data) ==
    IF \A i \in 0..6 : ~SlotIsFree(cat_data, i) THEN -1
    ELSE Least({i \in 0..6 : SlotIsFree(cat_data, i)})

\* An entry whose name is not cut to 30 characters: it runs on into the bytes after
EntryBytesNoTruncate(cat_data, entry_offset, filename, file_type, ts_track, ts_sector, sectors) ==
    LET name == ljust(upper(filename), 30)
    IN  [k \in 1..BYTES_PER_SECTOR |->
            LET off == k - 1 - entry_offset
            IN  IF off = 33 THEN sectors % 256
                ELSE IF off = 34 THEN (sectors \div 256) % 256
                ELSE IF off = 0 THEN ts_track
                ELSE IF off = 1 THEN ts_sector
                ELSE IF off = 2 THEN file_type
                ELSE IF off >= 3 /\ off < 3 + Len(name) THEN SetHighBit(name[off - 2])
                ELSE cat_data[k]]

\* An entry whose sector count is stored in one byte only
EntryBytesCountLowOnly(cat_data, entry_offset, filename, file_type, ts_track, ts_sector, sectors) ==
    LET name == ljust(Slice(upper(filename), 0, 30), 30)
    IN  [k \in 1..BYTES_PER_SECTOR |->
            LET off == k - 1 - entry_offset
            IN  IF off = 0 THEN ts_track
                ELSE IF off = 1 THEN ts_sector
                ELSE IF off = 2 THEN file_type
                ELSE IF off >= 3 /\ off < 33 THEN SetHighBit(name[off - 2])
                ELSE IF off = 33 THEN sectors % 256
                ELSE cat_data[k]]

\* The catalog sector with the 35 bytes of the entry at entry_offset written
\* (lines 251-262)
EntryBytes(cat_data, entry_offset, filename, file_type, ts_track, ts_sector, sectors) ==
    LET name == ljust(Slice(upper(filename), 0, 30), 30)
    IN  [k \in 1..BYTES_PER_SECTOR |->
            LET off == k - 1 - entry_offset
            IN  IF off = 0 THEN ts_track
                ELSE IF off = 1 THEN ts_sector
                ELSE IF off = 2 THEN file_type
                ELSE IF off >= 3 /\ off < 33 THEN SetHighBit(name[off - 2])
                ELSE IF off = 33 THEN sectors % 256
                ELSE IF off = 34 THEN (sectors \div 256) % 256
                ELSE cat_data[k]]

\* The loop of lines 244-268 from the catalog sector (cat_track, cat_sector)
RECURSIVE AddEntryFrom(_, _, _, _, _, _, _, _)
RECURSIVE AddEntryIn(_, _, _, _, _, _, _, _, _, _)
AddEntryFrom(d, cat_track, cat_sector, filename, file_type, ts_track, ts_sector, sectors) ==
    IF cat_track = 0
    THEN [ok |-> FALSE, err |-> "catalog full", data |-> d, slot |-> <<>>]
    ELSE AddEntryIn(d, cat_track, cat_sector, read_sector(d, cat_track, cat_sector),
                    FirstFreeSlot(read_sector(d, cat_track, cat_sector)),
                    filename, file_type, ts_track, ts_sector, sectors)

AddEntryIn(d, cat_track, cat_sector, cat_data, i, filename, file_type, ts_track, ts_sector, sectors) ==
    IF i >= 0
    THEN [ok |-> TRUE, err |-> "",
          data |-> write_sector(d, cat_track, cat_sector,
                      EntryBytes(cat_data, EntryOffset(i), filename, file_type,
                                 ts_track, ts_sector, sectors)).data,
          slot |-> <<cat_track, cat_sector, i>>]
    ELSE AddEntryFrom(d, cat_data[2], cat_data[3], filename, file_type,
                      ts_track, ts_sector, sectors)

AddEntryAt(d, vtoc, filename, file_type, ts_track, ts_sector, sectors) ==
    AddEntryFrom(d, vtoc[2], vtoc[3], filename, file_type, ts_track, ts_sector, sectors)

\* DOS33Disk.add_catalog_entry (slot: where the entry was written)
add_catalog_entry(d, filename, file_type, ts_track, ts_sector, sectors) ==
    AddEntryAt(d, read_sector(d, VTOC_TRACK, VTOC_SECTOR),
               filename, file_type, ts_track, ts_sector, sectors)

\* ------------------------------------------------------------ program writer
\* A loop body that stores only the track of the data sector in the
\* track/sector list, leaving the sector byte 0
WriteChunkNoSector(st, tokenized, data_offset, a) ==
    IF ~a.ok
    THEN [st EXCEPT !.ok = FALSE, !.err = a.err, !.data = a.data]
    ELSE IF st.ts_list_offset >= BYTES_PER_SECTOR
    THEN [st EXCEPT !.ok = FALSE, !.err = "index", !.data = a.data,
                    !.allocs = Append(st.allocs, a.ret)]
    ELSE [ok |-> TRUE, err |-> "",
          data |-> write_sector(a.data, a.ret[1], a.ret[2],
                      Slice(tokenized, data_offset, data_offset + BYTES_PER_SECTOR)).data,
          ts_list |-> SetByte(st.ts_list, st.ts_list_offset, a.ret[1]),
          ts_list_offset |-> st.ts_list_offset + 2,
          sector_count |-> st.sector_count + 1,
          allocs |-> Append(st.allocs, a.ret),
          writes |-> Append(st.writes, a.ret)]

\* A pass of the loop that stores every pair at offset 0x0C: ts_list_offset
\* does not advance
WriteChunkSamePlace(st, tokenized, data_offset, a) ==
    IF ~a.ok
    THEN [st EXCEPT !.ok = FALSE, !.err = a.err, !.data = a.data]
    ELSE IF st.ts_list_offset >= BYTES_PER_SECTOR
    THEN [st EXCEPT !.ok = FALSE, !.err = "index", !.data = a.data,
                    !.allocs = Append(st.allocs, a.ret)]
    ELSE [ok |-> TRUE, err |-> "",
          data |-> write_sector(a.data, a.ret[1], a.ret[2],
                      Slice(tokenized, data_offset, data_offset + BYTES_PER_SECTOR)).data,
          ts_list |-> SetByte(SetByte(st.ts_list, 12, a.ret[1]), 13, a.ret[2]),
          ts_list_offset |-> st.ts_list_offset,
          sector_count |-> st.sector_count + 1,
          allocs |-> Append(st.allocs, a.ret),
          writes |-> Append(st.writes, a.ret)]

\* A pass of the loop that, with the track/sector list full, leaves the pair
\* out and goes on
WriteChunkPastEnd(st, tokenized, data_offset, a) ==
    IF ~a.ok
    THEN [st EXCEPT !.ok = FALSE, !.err = a.err, !.data = a.data]
    ELSE [ok |-> TRUE, err |-> "",
          data |-> write_sector(a.data, a.ret[1], a.ret[2],
                      Slice(tokenized, data_offset, data_offset + BYTES_PER_SECTOR)).data,
          ts_list |-> IF st.ts_list_offset >= BYTES_PER_SECTOR THEN st.ts_list
                      ELSE SetByte(SetByte(st.ts_list, st.ts_list_offset, a.ret[1]),
                                   st.ts_list_offset + 1, a.ret[2]),
          ts_list_offset |-> st.ts_list_offset + 2,
          sector_count |-> st.sector_count + 1,
          allocs |-> Append(st.allocs, a.ret),
          writes |-> Append(st.writes, a.ret)]

\* The while loop of lines 292-306.  st is the state of the call: data (the
\* buffer), ts_list, ts_list_offset, sector_count, allocs (the sectors
\* allocate_sector returned so far in this call), writes (the sectors written
\* so far, in order), and ok/err once a statement has raised.
\* WriteChunk is one pass of the loop body, at data_offset, after its allocation a.
WriteChunk(st, tokenized, data_offset, a) ==
    IF ~a.ok
    THEN [st EXCEPT !.ok = FALSE, !.err = a.err, !.data = a.data]
    ELSE IF st.ts_list_offset >= BYTES_PER_SECTOR
    THEN \* ts_list[ts_list_offset] = data_track: index out of range
         [st EXCEPT !.ok = FALSE, !.err = "index", !.data = a.data,
                    !.allocs = Append(st.allocs, a.ret)]
    ELSE [ok |-> TRUE, err |-> "",
          data |-> write_sector(a.data, a.ret[1], a.ret[2],
                      Slice(tokenized, data_offset, data_offset + BYTES_PER_SECTOR)).data,
          ts_list |-> SetByte(SetByte(st.ts_list, st.ts_list_offset, a.ret[1]),
                              st.ts_list_offset + 1, a.ret[2]),
          ts_list_offset |-> st.ts_list_offset + 2,
          sector_count |-> st.sector_count + 1,
          allocs |-> Append(st.allocs, a.ret),
          writes |-> Append(st.writes, a.ret)]

\* The number of passes of the loop when no pass raises: data_offset takes the
\* values 0, 256, 512, ... below len(tokenized)
ChunkCount(tokenized) == (Len(tokenized) + BYTES_PER_SECTOR - 1) \div BYTES_PER_SECTOR

\* The passes lo..hi of the loop, in order (pass k has data_offset = 256 * k),
\* stopping at the first that raises.  The range is halved only to keep the
\* depth of the evaluation logarithmic; the passes run in the loop's order.
RECURSIVE WriteChunkRange(_, _, _, _)
WriteChunkRange(st, tokenized, lo, hi) ==
    IF ~st.ok \/ lo > hi THEN st
    ELSE IF lo = hi
    THEN WriteChunk(st, tokenized, lo * BYTES_PER_SECTOR, allocate_sector(st.data))
    ELSE WriteChunkRange(
            WriteChunkRange(st, tokenized, lo, (lo + hi) \div 2),
            tokenized, (lo + hi) \div 2 + 1, hi)

WriteChunks(st, tokenized) == WriteChunkRange(st, tokenized, 0, ChunkCount(tokenized) - 1)

\* A sector count that leaves out the index sector
CountWithoutIndex(data_sectors) == data_sectors

\* sector_count after line 310: the data sectors and the track/sector list
CountWithIndex(data_sectors) == data_sectors + 1

\* Lines 312-316: the catalog entry e was added (or not) after the index sector
SaveResult(w, first, e) ==
    [ok |-> e.ok, err |-> e.err, data |-> e.data,
     ret |-> IF e.ok THEN CountWithIndex(w.sector_count) ELSE 0,
     allocs |-> w.allocs, writes |-> Append(w.writes, first.ret), slot |-> e.slot]

\* Lines 308-314 after the loop ended in w
SaveAfterLoop(w, first, filename) ==
    IF ~w.ok
    THEN [ok |-> FALSE, err |-> w.err, data |-> w.data, ret |-> 0,
          allocs |-> w.allocs, writes |-> w.writes, slot |-> <<>>]
    ELSE SaveResult(w, first,
            add_catalog_entry(
                write_sector(w.data, first.ret[1], first.ret[2], w.ts_list).data,
                filename, FILE_TYPE_APPLESOFT_BASIC, first.ret[1], first.ret[2],
                CountWithIndex(w.sector_count)))

\* Lines 278-306 after the allocation `first` of the track/sector list
SaveFrom(first, filename, tokenized) ==
    IF ~first.ok
    THEN [ok |-> FALSE, err |-> first.err, data |-> first.data, ret |-> 0,
          allocs |-> <<>>, writes |-> <<>>, slot |-> <<>>]
    ELSE SaveAfterLoop(
            WriteChunks([ok |-> TRUE, err |-> "", data |-> first.data,
                         ts_list |-> ZeroSector, ts_list_offset |-> 12,
                         sector_count |-> 0, allocs |-> <<first.ret>>, writes |-> <<>>],
                        tokenized),
            first, filename)

\* A save that puts the buffer back as it was when a step of it raises
SaveWithRollback(d, filename, tokenized) ==
    LET r == SaveFrom(allocate_sector(d), filename, tokenized)
    IN  IF r.ok THEN r ELSE [r EXCEPT !.data = d]

\* DOS33Disk.save_basic_program from line 277 on, given the tokenized program
\* (the bytes tokenize_basic returned)
save_basic_program(d, filename, tokenized) ==
    SaveFrom(allocate_sector(d), filename, tokenized)

\* ------------------------------------------------------------ token tables
\* BASIC_TOKENS (lines 34-57), in the order of the dict: the keyword, its
\* characters as codes, and its token byte
BASIC_TOKENS ==
    <<
       [name |-> "END", text |-> <<69, 78, 68>>, token |-> 128],
       [name |-> "FOR", text |-> <<70, 79, 82>>, token |-> 129],
       [name |-> "NEXT", text |-> <<78, 69, 88, 84>>, token |-> 130],
       [name |-> "DATA", text |-> <<68, 65, 84, 65>>, token |-> 131],
       [name |-> "INPUT", text |-> <<73, 78, 80, 85, 84>>, token |-> 132],
       [name |-> "DEL", text |-> <<68, 69, 76>>, token |-> 133],
       [name |-> "DIM", text |-> <<68, 73, 77>>, token |-> 134],
       [name |-> "READ", text |-> <<82, 69, 65, 68>>, token |-> 135],
       [name |-> "GR", text |-> <<71, 82>>, token |-> 136],
       [name |-> "TEXT", text |-> <<84, 69, 88, 84>>, token |-> 137],
       [name |-> "PR#", text |-> <<80, 82, 35>>, token |-> 138],
       [name |-> "IN#", text |-> <<73, 78, 35>>, token |-> 139],
       [name |-> "CALL", text |-> <<67, 65, 76, 76>>, token |-> 140],
       [name |-> "PLOT", text |-> <<80, 76, 79, 84>>, token |-> 141],
       [name |-> "HLIN", text |-> <<72, 76, 73, 78>>, token |-> 142],
       [name |-> "VLIN", text |-> <<86, 76, 73, 78>>, token |-> 143],
       [name |-> "HGR2", text |-> <<72, 71, 82, 50>>, token |-> 144],
       [name |-> "HGR", text |-> <<72, 71, 82>>, token |-> 145],
       [name |-> "HCOLOR=", text |-> <<72, 67, 79, 76, 79, 82, 61>>, token |-> 146],
       [name |-> "HPLOT", text |-> <<72, 80, 76, 79, 84>>, token |-> 147],
       [name |-> "DRAW", text |-> <<68, 82, 65, 87>>, token |-> 148],
       [name |-> "XDRAW", text |-> <<88, 68, 82, 65, 87>>, token |-> 149],
       [name |-> "HTAB", text |-> <<72, 84, 65, 66>>, token |-> 150],
       [name |-> "HOME", text |-> <<72, 79, 77, 69>>, token |-> 151],
       [name |-> "ROT=", text |-> <<82, 79, 84, 61>>, token |-> 152],
       [name |-> "SCALE=", text |-> <<83, 67, 65, 76, 69, 61>>, token |-> 153],
       [name |-> "SHLOAD", text |-> <<83, 72, 76, 79, 65, 68>>, token |-> 154],
       [name |-> "TRACE", text |-> <<84, 82, 65, 67, 69>>, token |-> 155],
       [name |-> "NOTRACE", text |-> <<78, 79, 84, 82, 65, 67, 69>>, token |-> 156],
       [name |-> "NORMAL", text |-> <<78, 79, 82, 77, 65, 76>>, token |-> 157],
       [name |-> "INVERSE", text |-> <<73, 78, 86, 69, 82, 83, 69>>, token |-> 158],
       [name |-> "FLASH", text |-> <<70, 76, 65, 83, 72>>, token |-> 159],
       [name |-> "COLOR=", text |-> <<67, 79, 76, 79, 82, 61>>, token |-> 160],
       [name |-> "POP", text |-> <<80, 79, 80>>, token |-> 161],
       [name |-> "VTAB", text |-> <<86, 84, 65, 66>>, token |-> 162],
       [name |-> "HIMEM:", text |-> <<72, 73, 77, 69, 77, 58>>, token |-> 163],
       [name |-> "LOMEM:", text |-> <<76, 79, 77, 69, 77, 58>>, token |-> 164],
       [name |-> "ONERR", text |-> <<79, 78, 69, 82, 82>>, token |-> 165],
       [name |-> "RESUME", text |-> <<82, 69, 83, 85, 77, 69>>, token |-> 166],
       [name |-> "RECALL", text |-> <<82, 69, 67, 65, 76, 76>>, token |-> 167],
       [name |-> "STORE", text |-> <<83, 84, 79, 82, 69>>, token |-> 168],
       [name |-> "SPEED=", text |-> <<83, 80, 69, 69, 68, 61>>, token |-> 169],
       [name |-> "LET", text |-> <<76, 69, 84>>, token |-> 170],
       [name |-> "GOTO", text |-> <<71, 79, 84, 79>>, token |-> 171],
       [name |-> "RUN", text |-> <<82, 85, 78>>, token |-> 172],
       [name |-> "IF", text |-> <<73, 70>>, token |-> 173],
       [name |-> "RESTORE", text |-> <<82, 69, 83, 84, 79, 82, 69>>, token |-> 174],
       [name |-> "&", text |-> <<38>>, token |-> 175],
       [name |-> "GOSUB", text |-> <<71, 79, 83, 85, 66>>, token |-> 176],
       [name |-> "RETURN", text |-> <<82, 69, 84, 85, 82, 78>>, token |-> 177],
       [name |-> "REM", text |-> <<82, 69, 77>>, token |-> 178],
       [name |-> "STOP", text |-> <<83, 84, 79, 80>>, token |-> 179],
       [name |-> "ON", text |-> <<79, 78>>, token |-> 180],
       [name |-> "WAIT", text |-> <<87, 65, 73, 84>>, token |-> 181],
       [name |-> "LOAD", text |-> <<76, 79, 65, 68>>, token |-> 182],
       [name |-> "SAVE", text |-> <<83, 65, 86, 69>>, token |-> 183],
       [name |-> "DEF", text |-> <<68, 69, 70>>, token |-> 184],
       [name |-> "POKE", text |-> <<80, 79, 75, 69>>, token |-> 185],
       [name |-> "PRINT", text |-> <<80, 82, 73, 78, 84>>, token |-> 186],
       [name |-> "CONT", text |-> <<67, 79, 78, 84>>, token |-> 187],
       [name |-> "LIST", text |-> <<76, 73, 83, 84>>, token |-> 188],
       [name |-> "CLEAR", text |-> <<67, 76, 69, 65, 82>>, token |-> 189],
       [name |-> "GET", text |-> <<71, 69, 84>>, token |-> 190],
       [name |-> "NEW", text |-> <<78, 69, 87>>, token |-> 191],
       [name |-> "TAB(", text |-> <<84, 65, 66, 40>>, token |-> 192],
       [name |-> "TO", text |-> <<84, 79>>, token |-> 193],
       [name |-> "FN", text |-> <<70, 78>>, token |-> 194],
       [name |-> "SPC(", text |-> <<83, 80, 67, 40>>, token |-> 195],
       [name |-> "THEN", text |-> <<84, 72, 69, 78>>, token |-> 196],
       [name |-> "AT", text |-> <<65, 84>>, token |-> 197],
       [name |-> "NOT", text |-> <<78, 79, 84>>, token |-> 198],
       [name |-> "STEP", text |-> <<83, 84, 69, 80>>, token |-> 199],
       [name |-> "+", text |-> <<43>>, token |-> 200],
       [name |-> "-", text |-> <<45>>, token |-> 201],
       [name |-> "*", text |-> <<42>>, token |-> 202],
       [name |-> "/", text |-> <<47>>, token |-> 203],
       [name |-> "^", text |-> <<94>>, token |-> 204],
       [name |-> "AND", text |-> <<65, 78, 68>>, token |-> 205],
       [name |-> "OR", text |-> <<79, 82>>, token |-> 206],
       [name |-> ">", text |-> <<62>>, token |-> 207],
       [name |-> "=", text |-> <<61>>, token |-> 208],
       [name |-> "<", text |-> <<60>>, token |-> 209],
       [name |-> "SGN", text |-> <<83, 71, 78>>, token |-> 210],
       [name |-> "INT", text |-> <<73, 78, 84>>, token |-> 211],
       [name |-> "ABS", text |-> <<65, 66, 83>>, token |-> 212],
       [name |-> "USR", text |-> <<85, 83, 82>>, token |-> 213],
       [name |-> "FRE", text |-> <<70, 82, 69>>, token |-> 214],
       [name |-> "SCRN(", text |-> <<83, 67, 82, 78, 40>>, token |-> 215],
       [name |-> "PDL", text |-> <<80, 68, 76>>, token |-> 216],
       [name |-> "POS", text |-> <<80, 79, 83>>, token |-> 217],
       [name |-> "SQR", text |-> <<83, 81, 82>>, token |-> 218],
       [name |-> "RND", text |-> <<82, 78, 68>>, token |-> 219],
       [name |-> "LOG", text |-> <<76, 79, 71>>, token |-> 220],
       [name |-> "EXP", text |-> <<69, 88, 80>>, token |-> 221],
       [name |-> "COS", text |-> <<67, 79, 83>>, token |-> 222],
       [name |-> "SIN", text |-> <<83, 73, 78>>, token |-> 223],
       [name |-> "TAN", text |-> <<84, 65, 78>>, token |-> 224],
       [name |-> "ATN", text |-> <<65, 84, 78>>, token |-> 225],
       [name |-> "PEEK", text |-> <<80, 69, 69, 75>>, token |-> 226],
       [name |-> "LEN", text |-> <<76, 69, 78>>, token |-> 227],
       [name |-> "STR$", text |-> <<83, 84, 82, 36>>, token |-> 228],
       [name |-> "VAL", text |-> <<86, 65, 76>>, token |-> 229],
       [name |-> "ASC", text |-> <<65, 83, 67>>, token |-> 230],
       [name |-> "CHR$", text |-> <<67, 72, 82, 36>>, token |-> 231],
       [name |-> "LEFT$", text |-> <<76, 69, 70, 84, 36>>, token |-> 232],
       [name |-> "RIGHT$", text |-> <<82, 73, 71, 72, 84, 36>>, token |-> 233],
       [name |-> "MID$", text |-> <<77, 73, 68, 36>>, token |-> 234] >>

\* BASIC_TOKENS[name]
TokenOf(name) ==
    BASIC_TOKENS[CHOOSE k \in DOMAIN BASIC_TOKENS : BASIC_TOKENS[k].name = name].token

\* TOKEN_TO_KEYWORD (line 60): {v: k for k, v in BASIC_TOKENS.items()}; of two
\* keywords with one token byte the later one of the dict stays
TOKEN_TO_KEYWORD ==
    [b \in {BASIC_TOKENS[k].token : k \in DOMAIN BASIC_TOKENS} |->
        BASIC_TOKENS[Greatest({k \in DOMAIN BASIC_TOKENS : BASIC_TOKENS[k].token = b})].name]

\* The values of APPLESOFT_TOKENS in encoding.py (lines 97-206), whose keys are
\* the bytes 0x80, 0x81, ... 0xEB in this order
ApplesoftNames ==
    <<
       "END", "FOR", "NEXT", "DATA", "INPUT", "DEL", "DIM", "READ",
       "GR", "TEXT", "PR#", "IN#", "CALL", "PLOT", "HLIN", "VLIN",
       "HGR2", "HGR", "HCOLOR=", "HPLOT", "DRAW", "XDRAW", "HTAB", "HOME",
       "ROT=", "SCALE=", "SHLOAD", "TRACE", "NOTRACE", "NORMAL", "INVERSE", "FLASH",
       "COLOR=", "POP", "VTAB", "HIMEM:", "LOMEM:", "ONERR", "RESUME", "RECALL",
       "STORE", "SPEED=", "LET", "GOTO", "RUN", "IF", "RESTORE", "&",
       "GOSUB", "RETURN", "REM", "STOP", "ON", "WAIT", "LOAD", "SAVE",
       "DEF", "POKE", "PRINT", "CONT", "LIST", "CLEAR", "GET", "NEW",
       "TAB(", "TO", "FN", "SPC(", "THEN", "AT", "NOT", "STEP",
       "SGN", "+", "-", "*", "/", "^", "AND", "OR",
       ">", "=", "<", "SGN", "INT", "ABS", "USR", "FRE",
       "SCRN(", "PDL", "POS", "SQR", "RND", "LOG", "EXP", "COS",
       "SIN", "TAN", "ATN", "PEEK", "LEN", "STR$", "VAL", "ASC",
       "CHR$", "LEFT$", "RIGHT$", "MID$" >>

\* APPLESOFT_TOKENS of encoding.py: token byte to keyword
APPLESOFT_TOKENS ==
    [b \in 128..(127 + Len(ApplesoftNames)) |-> ApplesoftNames[b - 127]]

\* annotate_tokenized of server.py (lines 2261-2262): the keyword a content
\* byte is shown as, "" when the byte is not a key of APPLESOFT_TOKENS
AnnotatedAs(b) == IF b \in DOMAIN APPLESOFT_TOKENS THEN APPLESOFT_TOKENS[b] ELSE ""

\* ------------------------------------------------------------ tokenizer
\* A source text and a line are tuples of character codes, all ASCII.

\* str.strip(): the text without its leading and trailing whitespace
lstrip(t) ==
    IF \A i \in 1..Len(t) : t[i] \in Whitespace THEN <<>>
    ELSE SubSeq(t, Least({i \in 1..Len(t) : t[i] \notin Whitespace}), Len(t))

strip(t) == rstrip(lstrip(t))

\* str.split('\n'): the texts between the newlines, one more than the newlines
Newlines(t) == {i \in 1..Len(t) : t[i] = 10}

NthNewline(t, n) == CHOOSE p \in Newlines(t) : Cardinality({q \in Newlines(t) : q <= p}) = n

split_newline(t) ==
    [k \in 1..(Cardinality(Newlines(t)) + 1) |->
        SubSeq(t,
               IF k = 1 THEN 1 ELSE NthNewline(t, k - 1) + 1,
               IF k = Cardinality(Newlines(t)) + 1 THEN Len(t) ELSE NthNewline(t, k) - 1)]

\* line.split(None, 1) of a stripped, non-empty line: the text before the first
\* whitespace, and what follows the run of whitespace after it ('' when none)
FirstSpace(line) == {i \in 1..Len(line) : line[i] \in Whitespace}

FirstPart(line) ==
    IF FirstSpace(line) = {} THEN line ELSE SubSeq(line, 1, Least(FirstSpace(line)) - 1)

RestPart(line) ==
    IF FirstSpace(line) = {} THEN <<>>
    ELSE lstrip(SubSeq(line, Least(FirstSpace(line)), Len(line)))

\* int(text) of ASCII text without whitespace: an optional sign, then digits,
\* with single underscores allowed between digits.  int() raises ValueError
\* as well for more digits than the interpreter converts (its default
\* sys.get_int_max_str_digits(), sign and underscores not counted)
IsDigit(c) == c >= 48 /\ c <= 57

Unsigned(f) == IF f # <<>> /\ f[1] \in {43, 45} THEN Tail(f) ELSE f

INT_MAX_STR_DIGITS == 4300

IsIntLiteral(f) ==
    LET u == Unsigned(f)
    IN  /\ u # <<>>
        /\ \A i \in 1..Len(u) : IsDigit(u[i]) \/ u[i] = 95
        /\ IsDigit(u[1])
        /\ IsDigit(u[Len(u)])
        /\ \A i \in 1..(Len(u) - 1) : ~(u[i] = 95 /\ u[i + 1] = 95)
        /\ Len(SelectSeq(u, IsDigit)) <= INT_MAX_STR_DIGITS

RECURSIVE DigitsValue(_)
DigitsValue(ds) ==
    IF ds = <<>> THEN 0
    ELSE 10 * DigitsValue(SubSeq(ds, 1, Len(ds) - 1)) + (ds[Len(ds)] - 48)

IntValue(f) ==
    LET v == DigitsValue(SelectSeq(Unsigned(f), IsDigit))
    IN  IF f[1] = 45 THEN 0 - v ELSE v

\* str.isalpha() of one ASCII character
IsAlpha(c) == (c >= 65 /\ c <= 90) \/ (c >= 97 /\ c <= 122)

\* The state of tokenize_line's loop: i, in_string, in_rem and output
ScanStart == [i |-> 0, in_string |-> FALSE, in_rem |-> FALSE, output |-> <<>>]

\* A quote that is copied but leaves in_string as it is
ScanQuoteNoToggle(st) ==
    [st EXCEPT !.output = Append(st.output, 34), !.i = st.i + 1]

\* Lines 379-383: a quote toggles in_string and is copied
ScanQuote(st) ==
    [st EXCEPT !.in_string = ~st.in_string, !.output = Append(st.output, 34), !.i = st.i + 1]

\* Lines 385-388: inside a string or after REM the character is copied
ScanLiteral(st, c) == [st EXCEPT !.output = Append(st.output, c), !.i = st.i + 1]

\* A REM that is replaced by its token but leaves in_rem clear
ScanRemNoMode(st) ==
    [st EXCEPT !.output = Append(st.output, TokenOf("REM")), !.i = st.i + 3]

\* Lines 391-395: REM is replaced by its token and sets in_rem
ScanRem(st) ==
    [st EXCEPT !.output = Append(st.output, TokenOf("REM")), !.i = st.i + 3,
               !.in_rem = TRUE]

\* The keywords looked for are only those that start with a letter
MatchingWords(line, i) ==
    {k \in DOMAIN BASIC_TOKENS :
        /\ IsAlpha(BASIC_TOKENS[k].text[1])
        /\ upper(Slice(line, i, i + Len(BASIC_TOKENS[k].text))) = BASIC_TOKENS[k].text}

\* The keywords that line[i:i+len(keyword)].upper() equals (line 400)
MatchingKeywords(line, i) ==
    {k \in DOMAIN BASIC_TOKENS :
        upper(Slice(line, i, i + Len(BASIC_TOKENS[k].text))) = BASIC_TOKENS[k].text}

\* The matching keyword that comes first in the order of the table
FirstInTable(ks) == Least(ks)

\* The matching keyword that comes first in
\* sorted(BASIC_TOKENS.keys(), key=len, reverse=True): the longest, and of
\* two of one length the earlier in the dict (the sort is stable)
LongestFirst(ks) ==
    CHOOSE k \in ks :
        \A j \in ks :
            \/ Len(BASIC_TOKENS[k].text) > Len(BASIC_TOKENS[j].text)
            \/ Len(BASIC_TOKENS[k].text) = Len(BASIC_TOKENS[j].text) /\ k <= j

\* Lines 401-404: the keyword is replaced by its token
ScanKeyword(st, k) ==
    [st EXCEPT !.output = Append(st.output, BASIC_TOKENS[k].token),
               !.i = st.i + Len(BASIC_TOKENS[k].text)]

\* Lines 406-409: ord(c.upper()) if c.isalpha() else ord(c)
ScanChar(st, c) ==
    [st EXCEPT !.output = Append(st.output, IF IsAlpha(c) THEN UpperChar(c) ELSE c),
               !.i = st.i + 1]

\* Lines 397-409, given the keywords that match at i
ScanMatch(st, c, ks) ==
    IF ks # {} THEN ScanKeyword(st, LongestFirst(ks)) ELSE ScanChar(st, c)

\* One pass of the while loop of lines 375-409 at st.i < len(line)
ScanStep(line, st) ==
    LET c == line[st.i + 1]
    IN  IF c = 34 THEN ScanQuote(st)
        ELSE IF st.in_string \/ st.in_rem THEN ScanLiteral(st, c)
        ELSE IF upper(Slice(line, st.i, st.i + 3)) = <<82, 69, 77>> THEN ScanRem(st)
        ELSE ScanMatch(st, c, MatchingKeywords(line, st.i))

RECURSIVE ScanFrom(_, _)
ScanFrom(line, st) ==
    IF st.i >= Len(line) THEN st ELSE ScanFrom(line, ScanStep(line, st))

\* tokenize_line
tokenize_line(line) == ScanFrom(line, ScanStart).output

\* The address of the next line that leaves the terminator out
NextAddressNoTerminator(address, tokenized_line) == address + 4 + Len(tokenized_line)

\* Lines 348-349: next_address
NextAddress(address, tokenized_line) == address + 4 + Len(tokenized_line) + 1

\* Lines 352-357: the record of a line
LineRecord(next_address, line_num, tokenized_line) ==
    <<next_address % 256, (next_address \div 256) % 256,
      line_num % 256, (line_num \div 256) % 256>> \o tokenized_line \o <<0>>

\* The state of tokenize_basic's loop: address and output.
\* Lines 344-359 for an accepted line
FrameLine(acc, line_num, tokenized_line) ==
    [address |-> NextAddress(acc.address, tokenized_line),
     output |-> acc.output \o
                LineRecord(NextAddress(acc.address, tokenized_line), line_num, tokenized_line)]

\* Lines 328-340: the line is taken when, stripped, it is not empty and its
\* first part is an integer
Accepted(line) == strip(line) # <<>> /\ IsIntLiteral(FirstPart(strip(line)))

\* A skipped line that leaves a zero byte in the output
SkippedLeavesByte(acc) == [acc EXCEPT !.output = Append(acc.output, 0)]

\* continue (lines 330, 335, 340): the line leaves no trace
Skipped(acc) == acc

\* One pass of the loop of lines 327-359
BasicLine(acc, line) ==
    IF ~Accepted(line) THEN Skipped(acc)
    ELSE FrameLine(acc, IntValue(FirstPart(strip(line))),
                   tokenize_line(RestPart(strip(line))))

RECURSIVE BasicLines(_, _, _)
BasicLines(acc, lines, n) ==
    IF n = 0 THEN acc ELSE BasicLine(BasicLines(acc, lines, n - 1), lines[n])

\* An end of program marker of one zero byte
EndMarkerShort == <<0>>

\* Lines 362-363: the end of program marker
EndMarker == <<0, 0>>

\* Lines 321-325: the lines of the source, and the state before the loop
SourceLines(source) == split_newline(strip(source))

BasicStart == [address |-> 2049, output |-> <<>>]

\* tokenize_basic
tokenize_basic(source) ==
    BasicLines(BasicStart, SourceLines(source), Len(SourceLines(source))).output \o EndMarker

\* ------------------------------------------------------------ inputs
\* Bounds of the model
MaxCalls == 3
MaxFails == 2

\* File names, as character codes
NameHello == <<104, 101, 108, 108, 111>>                    \* "hello"
NameTrail == <<65, 98, 32, 99, 32, 32>>                     \* "Ab c  "
NameLong == [i \in 1..35 |-> IF i <= 26 THEN 96 + i ELSE 48 + (i - 27)]
                                                            \* "abc...z012345678"

\* The arguments of add_catalog_entry that the model passes
AppendInputs ==
    { [name |-> NameHello, type |-> 2, track |-> 18, sector |-> 0, count |-> 4],
      [name |-> NameLong, type |-> 132, track |-> 20, sector |-> 3, count |-> 300],
      [name |-> NameTrail, type |-> 1, track |-> 19, sector |-> 7, count |-> 1],
      [name |-> NameTrail, type |-> 4, track |-> 0, sector |-> 5, count |-> 1],
      [name |-> NameHello, type |-> 130, track |-> 255, sector |-> 0, count |-> 4],
      [name |-> NameHello, type |-> 0, track |-> 22, sector |-> 1, count |-> 65540] }

\* A tokenized program of n bytes: no byte of it is zero but its last two
ProgramBytes(n) ==
    [i \in 1..n |-> IF i > n - 2 THEN 0 ELSE 1 + ((i * 7) % 251)]

\* ------------------------------------------------------------ emulator
\* The Emulator object and, for the call under way, what it has sent so far.
\* process: "none" (self.process is None), "alive" or "dead" (a pexpect
\* process for which isalive() is true or false); control_socket: whether
\* self.control_socket holds a BobbinControlSocket; socket_path: whether
\* control_socket_path is set.  sent: what went to the process, in order
\* ("^C" a sendcontrol('c'), the others a sendline); sock: the commands sent
\* on the control socket; conts: the value of in_debugger at each
\* sendline("c"); enters, exits: the calls of enter_debugger and
\* exit_debugger; reads: the reads of the is_running property; killed: whether terminate(force=True) was called; op,
\* retries, ret, exc: the last call made on the object ("died" when the
\* process has ended since), the max_retries it was given, and what it
\* returned or raised
NewEmulator(socket_path) ==
    [process |-> "none", in_debugger |-> FALSE, control_socket |-> FALSE,
     socket_path |-> socket_path,
     sent |-> <<>>, sock |-> <<>>, conts |-> <<>>, enters |-> 0, exits |-> 0,
     reads |-> 0, killed |-> FALSE,
     op |-> "new", ret |-> "", exc |-> "", retries |-> 0]

\* The fields of the object, without the record of what a call sent
Fields(e) ==
    [process |-> e.process, in_debugger |-> e.in_debugger,
     control_socket |-> e.control_socket, socket_path |-> e.socket_path]

\* The object at the start of a call
Begin(e) ==
    [e EXCEPT !.sent = <<>>, !.sock = <<>>, !.conts = <<>>, !.enters = 0, !.exits = 0,
              !.reads = 0, !.killed = FALSE]

\* The default of enter_debugger's max_retries (line 282)
DefaultRetries == 3

\* Emulator.is_running (lines 134-137)
is_running(e) == e.process = "alive"

\* The object when a call reads is_running: the process may have ended by
\* itself since the call's last read.  env.gone is the read of the call (from
\* 1) that is the first to find it ended; 0 when it does not end
ReadRunning(e, env) ==
    [e EXCEPT !.reads = @ + 1,
              !.process = IF @ = "alive" /\ env.gone = e.reads + 1 THEN "dead" ELSE @]

\* process.sendline(what) / process.sendcontrol('c')
Send(e, what) ==
    [e EXCEPT !.sent = Append(@, what),
              !.conts = IF what = "c" THEN Append(@, e.in_debugger) ELSE @]

\* A call that returns ret, and a call that raises exc
Returns(e, ret) == [e |-> e, ret |-> ret, exc |-> ""]
Raises(e, exc) == [e |-> e, ret |-> "", exc |-> exc]

\* What the process does in one attempt of enter_debugger after the two
\* Ctrl-C: "prompt" (expect sees 'BOBBIN> '), "prompt_died" (it does, and the
\* drain after it reads EOF from a dead process), "partial" (TIMEOUT with
\* 'BOBBIN' in the output), "timeout" (TIMEOUT without), "eof" (expect raises
\* pexpect.EOF), and "died_draining" (the drain before the Ctrl-C reads EOF
\* from a dead process)
AttemptOutcomes == {"prompt", "prompt_died", "partial", "timeout", "eof", "died_draining"}

\* The outcome of the k-th attempt a call makes, over all the enter_debugger
\* it runs (k from 1): env.timeouts attempts time out without the prompt, the
\* attempts after them meet env.final
AttemptOutcome(env, k) == IF k <= env.timeouts THEN "timeout" ELSE env.final

\* The attempts a call has made so far: each has sent Ctrl-C twice
Attempts(e) == Cardinality({i \in DOMAIN e.sent : e.sent[i] = "^C"}) \div 2

\* The loop running once more than max_retries says
RECURSIVE EnterAttemptOneMore(_, _, _, _)
EnterAttemptOneMore(e, attempt, max_retries, env) ==
    IF attempt > max_retries THEN Returns(e, "False")
    ELSE LET \* lines 302-304
             e1 == IF attempt > 0 THEN [e EXCEPT !.in_debugger = FALSE] ELSE e
             e2 == IF e1.in_debugger THEN Send(e1, "help") ELSE e1
         IN  IF e1.in_debugger /\ env.verify = "match" THEN Returns(e2, "True")
             ELSE IF e1.in_debugger /\ env.verify = "eof"
             THEN Raises([e2 EXCEPT !.process = "dead"], "EOF")
             ELSE LET e3 == [e2 EXCEPT !.in_debugger = FALSE]
                      o == AttemptOutcome(env, Attempts(e3) + 1)
                      e4 == Send(Send(e3, "^C"), "^C")
                  IN  IF o = "died_draining"
                      THEN Raises([e3 EXCEPT !.process = "dead"], "BobbinError")
                      ELSE IF o = "prompt"
                      THEN Returns([e4 EXCEPT !.in_debugger = TRUE], "True")
                      ELSE IF o = "prompt_died"
                      THEN Raises([e4 EXCEPT !.in_debugger = TRUE, !.process = "dead"],
                                  "BobbinError")
                      ELSE IF o = "partial"
                      THEN Returns([e4 EXCEPT !.in_debugger = TRUE], "True")
                      ELSE IF o = "eof"
                      THEN Raises([e4 EXCEPT !.process = "dead"], "EOF")
                      ELSE EnterAttemptOneMore(e4, attempt + 1, max_retries, env)

\* The loop of enter_debugger (lines 299-367) from pass `attempt` on.
\* env.verify is what the 'help' check of lines 306-315 meets ("match",
\* "timeout" or "eof").
RECURSIVE EnterAttempt(_, _, _, _)
EnterAttempt(e, attempt, max_retries, env) ==
    IF attempt >= max_retries THEN Returns(e, "False")
    ELSE LET \* lines 302-304
             e1 == IF attempt > 0 THEN [e EXCEPT !.in_debugger = FALSE] ELSE e
             \* lines 306-315
             e2 == IF e1.in_debugger THEN Send(e1, "help") ELSE e1
         IN  IF e1.in_debugger /\ env.verify = "match" THEN Returns(e2, "True")
             ELSE IF e1.in_debugger /\ env.verify = "eof"
             THEN Raises([e2 EXCEPT !.process = "dead"], "EOF")
             ELSE LET e3 == [e2 EXCEPT !.in_debugger = FALSE]
                      o == AttemptOutcome(env, Attempts(e3) + 1)
                      \* lines 334-336
                      e4 == Send(Send(e3, "^C"), "^C")
                  IN  IF o = "died_draining"
                      THEN Raises([e3 EXCEPT !.process = "dead"], "BobbinError")
                      ELSE IF o = "prompt"
                      THEN Returns([e4 EXCEPT !.in_debugger = TRUE], "True")
                      ELSE IF o = "prompt_died"
                      THEN Raises([e4 EXCEPT !.in_debugger = TRUE, !.process = "dead"],
                                  "BobbinError")
                      ELSE IF o = "partial"
                      THEN Returns([e4 EXCEPT !.in_debugger = TRUE], "True")
                      ELSE IF o = "eof"
                      THEN Raises([e4 EXCEPT !.process = "dead"], "EOF")
                      ELSE EnterAttempt(e4, attempt + 1, max_retries, env)

\* Emulator.enter_debugger (lines 282-370)
enter_debugger(e, max_retries, env) ==
    LET e0 == ReadRunning([e EXCEPT !.enters = @ + 1], env)
    IN  IF ~is_running(e0) THEN Raises(e0, "BobbinError")
        ELSE EnterAttempt(e0, 0, max_retries, env)

\* An exit_debugger that sends 'c' whatever the flag says
ExitDebuggerAlways(e, env) ==
    LET e0 == [e EXCEPT !.exits = @ + 1]
        e1 == Send(e0, "c")
    IN  IF env.exit = "eof" THEN Raises([e1 EXCEPT !.process = "dead"], "EOF")
        ELSE IF env.exit = "died" THEN Raises([e1 EXCEPT !.process = "dead"], "BobbinError")
        ELSE Returns([e1 EXCEPT !.in_debugger = FALSE], "True")

\* Emulator.exit_debugger (lines 372-407).  env.exit: "ok", "eof" (the expect
\* of line 388 raises pexpect.EOF) or "died" (the drain reads EOF from a dead
\* process)
exit_debugger(e, env) ==
    LET e0 == [e EXCEPT !.exits = @ + 1]
        e1 == Send(e0, "c")
    IN  IF ~e0.in_debugger THEN Returns(e0, "True")
        ELSE IF env.exit = "eof" THEN Raises([e1 EXCEPT !.process = "dead"], "EOF")
        ELSE IF env.exit = "died" THEN Raises([e1 EXCEPT !.process = "dead"], "BobbinError")
        ELSE Returns([e1 EXCEPT !.in_debugger = FALSE], "True")

\* Lines 430-445 of debugger_command, once in the debugger.  env.cmd: "ok"
\* (the prompt or a TIMEOUT) or "eof" (expect raises pexpect.EOF)
CommandIn(e, cmd, stay_in_debugger, env) ==
    LET e1 == Send(e, cmd)
    IN  IF env.cmd = "eof" THEN Raises([e1 EXCEPT !.process = "dead"], "EOF")
        ELSE IF stay_in_debugger THEN Returns(e1, "output")
        ELSE LET x == exit_debugger(e1, env)
             IN  IF x.exc # "" THEN x ELSE Returns(x.e, "output")

\* Emulator.debugger_command (lines 409-445); enter_debugger is called with
\* its default max_retries
debugger_command(e, cmd, stay_in_debugger, env) ==
    LET e0 == ReadRunning(e, env)
    IN  IF ~is_running(e0) THEN Raises(e0, "BobbinError")
        ELSE IF e0.in_debugger THEN CommandIn(e0, cmd, stay_in_debugger, env)
        ELSE LET n == enter_debugger(e0, DefaultRetries, env)
             IN  IF n.exc # "" THEN n
                 ELSE IF n.ret = "False" THEN Raises(n.e, "BobbinError")
                 ELSE CommandIn(n.e, cmd, stay_in_debugger, env)

\* BobbinControlSocket.send_command (control_socket.py lines 66-112) for one
\* command.  outcome: "ok" (a reply without "error"), "error" (an error
\* reply, a closed connection, a timeout or unparsable JSON: all raised as
\* ControlSocketError) or "other" (a reply that is JSON but no object, on
\* which `"error" in result` or result.get raises a TypeError or an
\* AttributeError that send_command does not catch)
SockOutcomes == {"ok", "error", "other"}
send_command(e, cmd, outcome) ==
    LET e1 == [e EXCEPT !.sock = Append(@, cmd)]
    IN  IF outcome = "ok" THEN Returns(e1, "reply")
        ELSE IF outcome = "error" THEN Raises(e1, "ControlSocketError")
        ELSE Raises(e1, "TypeError")

\* Emulator.resume and _ensure_running (lines 271-280): the reply is dropped
\* and a ControlSocketError passed over
resume(e, env) ==
    IF e.control_socket
    THEN LET x == send_command(e, "resume", env.resume)
         IN  IF x.exc \in {"", "ControlSocketError"} THEN Returns(x.e, "None") ELSE x
    ELSE Returns(e, "None")

\* The except clause of the socket path: ControlSocketError becomes BobbinError
Surfaced(x) == IF x.exc = "ControlSocketError" THEN Raises(x.e, "BobbinError") ELSE x

\* A peek that takes the debugger path when the socket fails
PeekFallsBack(e, env) ==
    LET x == send_command(e, "peek", env.sock)
    IN  IF e.control_socket /\ x.exc # "ControlSocketError" THEN x
        ELSE debugger_command(IF e.control_socket THEN x.e ELSE e, "addr", FALSE, env)

\* Emulator.peek (lines 466-511)
peek(e, env) ==
    IF e.control_socket THEN Surfaced(send_command(e, "peek", env.sock))
    ELSE debugger_command(e, "addr", FALSE, env)

\* Emulator.poke (lines 513-542)
poke(e, env) ==
    IF e.control_socket
    THEN LET x == Surfaced(send_command(e, "poke", env.sock))
         IN  IF x.exc # "" THEN x ELSE Returns(x.e, "True")
    ELSE LET x == debugger_command(e, "addr: data", FALSE, env)
         IN  IF x.exc # "" THEN x ELSE Returns(x.e, "True")

\* Emulator.load (lines 544-563)
load(e, env) ==
    IF e.control_socket THEN Surfaced(send_command(e, "load", env.sock))
    ELSE LET x == poke(e, env)
         IN  IF x.exc # "" THEN x ELSE Returns(x.e, "len")

\* Emulator.read_screen (lines 595-610) with read_screen_memory (565-593)
read_screen(e, env) ==
    IF e.control_socket THEN Surfaced(send_command(e, "screen", env.sock))
    ELSE debugger_command(e, "0400.07FF", FALSE, env)

\* Emulator.inject_keys (lines 668-740).  env.keys: "ok", or "eof" (the
\* expect of line 717 raises pexpect.EOF, before in_debugger is set False),
\* or "eof_prompt" (the expect of line 726 raises it, after), or "died" (the
\* drain of lines 733-740 reads EOF from a dead process)
inject_keys(e, env) ==
    IF ~is_running(ReadRunning(e, env)) THEN Raises(ReadRunning(e, env), "BobbinError")
    ELSE LET r == resume(ReadRunning(e, env), env)
         IN  IF r.exc # "" THEN r
             ELSE IF r.e.control_socket
             THEN LET x == Surfaced(send_command(r.e, "keys", env.sock))
                  IN  IF x.exc # "" THEN x ELSE Returns(x.e, "None")
             ELSE LET n == enter_debugger(r.e, DefaultRetries, env)
                  IN  IF n.exc # "" THEN n
                      ELSE IF n.ret = "False" THEN Raises(n.e, "BobbinError")
                      ELSE LET e1 == Send(n.e, "keys text")
                               e2 == [e1 EXCEPT !.in_debugger = FALSE]
                           IN  IF env.keys = "eof"
                               THEN Raises([e1 EXCEPT !.process = "dead"], "EOF")
                               ELSE IF env.keys = "eof_prompt"
                               THEN Raises([e2 EXCEPT !.process = "dead"], "EOF")
                               ELSE IF env.keys = "died"
                               THEN Raises([e2 EXCEPT !.process = "dead"], "BobbinError")
                               ELSE Returns(e2, "None")

\* Emulator.get_registers (lines 812-882)
get_registers(e, env) ==
    IF e.control_socket THEN Surfaced(send_command(e, "cpu", env.sock))
    ELSE LET n == IF ~e.in_debugger THEN enter_debugger(e, DefaultRetries, env) ELSE Returns(e, "")
         IN  IF n.exc # "" THEN n
             ELSE LET x == debugger_command(n.e, "", TRUE, env)
                  IN  IF x.exc # "" THEN x ELSE Returns(x.e, "registers")

\* Emulator.reset (lines 884-910)
reset(e, env) ==
    LET r == resume(e, env)
    IN  IF r.exc # "" THEN r
        ELSE IF r.e.control_socket
        THEN LET x == Surfaced(send_command(r.e, "reset", env.sock))
             IN  IF x.exc # "" THEN x ELSE Returns(x.e, "None")
        ELSE LET n == IF ~r.e.in_debugger THEN enter_debugger(r.e, DefaultRetries, env)
                      ELSE Returns(r.e, "")
             IN  IF n.exc # "" THEN n
                 ELSE LET x == debugger_command(n.e, "r", TRUE, env)
                      IN  IF x.exc # "" THEN x
                          ELSE Returns([x.e EXCEPT !.in_debugger = FALSE], "None")

\* A shutdown that leaves in_debugger as the graceful quit left it
ShutdownKeepsFlag(e, env) ==
    LET e1 == IF e.control_socket
              THEN [send_command(e, "quit", env.sock).e EXCEPT !.control_socket = FALSE]
              ELSE e
    IN  IF e1.process = "none" THEN Returns(e1, "None")
        ELSE LET n == enter_debugger(e1, DefaultRetries, env)
                 e2 == IF n.exc # "" THEN n.e ELSE Send(n.e, "q")
                 alive == is_running(e2) /\ env.quit = "timeout"
             IN  Returns([e2 EXCEPT !.process = "none", !.killed = alive], "None")

\* Emulator.shutdown (lines 234-260).  env.quit: "eof" (the process exits
\* after 'q') or "timeout" (it does not, and is terminated)
shutdown(e, env) ==
    LET \* lines 237-243: quit() swallows every exception
        e1 == IF e.control_socket
              THEN [send_command(e, "quit", env.sock).e EXCEPT !.control_socket = FALSE]
              ELSE e
    IN  IF e1.process = "none" THEN Returns(e1, "None")
        ELSE LET \* lines 246-252: whatever is raised is passed over
                 n == enter_debugger(e1, DefaultRetries, env)
                 e2 == IF n.exc # "" THEN n.e ELSE Send(n.e, "q")
                 \* lines 253-257
                 alive == is_running(e2) /\ env.quit = "timeout"
             IN  Returns([e2 EXCEPT !.process = "none", !.in_debugger = FALSE,
                                    !.killed = alive], "None")

\* Emulator.boot (lines 139-232).  env.boot: "prompt" (the BASIC prompt, or
\* wait_for_prompt False), "timeout", "eof" (the new process ends before the
\* prompt: the expect of line 194 raises pexpect.EOF, which is not caught) or
\* "died" (the drain of lines 204-216 reads EOF from a dead process);
\* env.connect: whether the control socket connects
boot(e, env) ==
    LET e0 == ReadRunning(e, env)
        s == IF is_running(e0) THEN shutdown(e0, env).e ELSE e0
        e1 == [s EXCEPT !.process = "alive"]
    IN  IF env.boot = "timeout" THEN Raises(e1, "BobbinError")
        ELSE IF env.boot = "eof" THEN Raises([e1 EXCEPT !.process = "dead"], "EOF")
        ELSE IF env.boot = "died" THEN Raises([e1 EXCEPT !.process = "dead"], "BobbinError")
        ELSE LET e2 == [e1 EXCEPT !.in_debugger = FALSE]
             IN  IF ~e2.socket_path THEN Returns(e2, "screen")
                 ELSE IF ~env.connect
                 THEN Returns([e2 EXCEPT !.control_socket = FALSE], "screen")
                 ELSE LET x == send_command([e2 EXCEPT !.control_socket = TRUE],
                                            "ping", env.ping)
                      IN  IF x.exc = "ControlSocketError"
                          THEN Returns([x.e EXCEPT !.control_socket = FALSE], "screen")
                          ELSE IF x.exc # "" THEN x
                          ELSE Returns(x.e, "screen")

\* The object after Emulator(): control_socket_path has its default
NoEmu == NewEmulator(TRUE)

\* ------------------------------------------------------------ state
VARIABLES
    data,       \* self.data, the volume buffer
    allocated,  \* the sectors allocate_sector returned since the last format, in order
    last,       \* the last call: its name, arguments and outcome
    calls,      \* the number of calls made
    fails,      \* the number of calls that raised
    origin,     \* how the buffer was last set up as a whole: "blank" (a new
                \* volume, all zero), "image" (read from an image file) or
                \* "format" (by format)
    appends,    \* the number of add_catalog_entry calls made since then by the
                \* caller itself, those inside save_basic_program not counted
    tok,        \* the tokenize_basic call under way: its argument, its position
                \* and its local variables
    image,      \* self.filename, and the image file of the file system:
                \* whether it exists, its bytes, and the buffer that was
                \* written to it last
    emu         \* the Emulator object: process, in_debugger, control_socket, and
                \* what its last call sent and returned

vars == <<data, allocated, last, calls, fails, origin, appends, tok, image, emu>>

NoCall ==
    [op |-> "none", arg |-> <<>>, ok |-> TRUE, err |-> "", ret |-> <<>>,
     allocs |-> <<>>, writes |-> <<>>, slot |-> <<>>]

Failed(r) == IF r.ok THEN 0 ELSE 1

\* The object has no filename and the file system has no image file
NoFile == [filename |-> "", exists |-> FALSE, content |-> BlankData, saved |-> BlankData]

\* disk.save(filename), given its outcome r
SaveDone(filename, r) ==
    /\ image' = IF r.ok
                THEN [filename |-> r.filename, exists |-> TRUE, content |-> r.content,
                      saved |-> data]
                ELSE image
    /\ last' = [NoCall EXCEPT !.op = "save", !.arg = <<filename>>, !.ok = r.ok, !.err = r.err]
    /\ calls' = calls + 1
    /\ fails' = fails + Failed(r)
    /\ UNCHANGED <<data, allocated, origin, appends, tok, emu>>

DoSave(filename) == SaveDone(filename, save(data, image.filename, filename))

\* disk = DOS33Disk(filename): a new object takes the place of the old one
DoOpen(filename) ==
    /\ data' = Open(filename, filename = ImageName /\ image.exists, image.content)
    /\ image' = [image EXCEPT !.filename = filename]
    /\ allocated' = <<>>
    /\ origin' = IF filename = ImageName /\ image.exists THEN "image" ELSE "blank"
    /\ appends' = 0
    /\ last' = [NoCall EXCEPT !.op = "open", !.arg = <<filename>>]
    /\ calls' = calls + 1
    /\ UNCHANGED <<fails, tok, emu>>

\* disk.catalog()
DoCatalog ==
    /\ last' = [NoCall EXCEPT !.op = "catalog", !.ret = catalog(data)]
    /\ calls' = calls + 1
    /\ UNCHANGED <<data, allocated, fails, origin, appends, tok, image, emu>>

\* No tokenize_basic call is under way
NoRun ==
    [pc |-> "idle", source |-> <<>>, lines |-> <<>>, ln |-> 0,
     line |-> <<>>, line_num |-> 0,
     scan |-> ScanStart, acc |-> BasicStart, recs |-> <<>>, result |-> <<>>]

\* disk.format(volume_num)
DoFormat(volume_num) ==
    /\ data' = format(data, volume_num)
    /\ allocated' = <<>>
    /\ last' = [NoCall EXCEPT !.op = "format", !.arg = <<volume_num>>]
    /\ calls' = calls + 1
    /\ origin' = "format"
    /\ appends' = 0
    /\ UNCHANGED <<fails, tok, image, emu>>

\* disk.allocate_sector(), given its outcome r
AllocateDone(r) ==
    /\ data' = r.data
    /\ allocated' = IF r.ok THEN Append(allocated, r.ret) ELSE allocated
    /\ last' = [NoCall EXCEPT !.op = "allocate_sector", !.ok = r.ok, !.err = r.err,
                              !.ret = r.ret,
                              !.allocs = IF r.ok THEN <<r.ret>> ELSE <<>>]
    /\ calls' = calls + 1
    /\ fails' = fails + Failed(r)
    /\ UNCHANGED <<origin, appends, tok, image, emu>>

DoAllocate == AllocateDone(allocate_sector(data))

\* disk.add_catalog_entry(name, type, track, sector, count), given its outcome r
AppendDone(in, r) ==
    /\ data' = r.data
    /\ last' = [NoCall EXCEPT !.op = "add_catalog_entry", !.arg = in, !.ok = r.ok,
                              !.err = r.err, !.slot = r.slot]
    /\ calls' = calls + 1
    /\ fails' = fails + Failed(r)
    /\ appends' = appends + 1
    /\ UNCHANGED <<allocated, origin, tok, image, emu>>

DoAppend(in) ==
    AppendDone(in, add_catalog_entry(data, in.name, in.type, in.track, in.sector, in.count))

\* disk.save_basic_program(name, text) where tokenize_basic(text) = tokenized,
\* given its outcome r
WriteDone(name, tokenized, r) ==
    /\ data' = r.data
    /\ allocated' = allocated \o r.allocs
    /\ last' = [op |-> "save_basic_program", arg |-> <<name, Len(tokenized)>>,
                ok |-> r.ok, err |-> r.err, ret |-> r.ret,
                allocs |-> r.allocs, writes |-> r.writes, slot |-> r.slot]
    /\ calls' = calls + 1
    /\ fails' = fails + Failed(r)
    /\ UNCHANGED <<origin, appends, tok, image, emu>>

DoWrite(name, tokenized) ==
    WriteDone(name, tokenized, save_basic_program(data, name, tokenized))

\* disk.write_sector(track, sector, bytes), given its outcome r
SectorDone(track, sector, bytes, r) ==
    /\ data' = r.data
    /\ last' = [NoCall EXCEPT !.op = "write_sector", !.arg = <<track, sector, bytes>>,
                              !.ok = r.ok, !.err = r.err]
    /\ calls' = calls + 1
    /\ fails' = fails + Failed(r)
    /\ UNCHANGED <<allocated, origin, appends, tok, image, emu>>

DoWriteSector(track, sector, bytes) ==
    SectorDone(track, sector, bytes, write_sector(data, track, sector, bytes))

\* ------------------------------------------------------------ volumes
\* n successive allocate_sector calls numbered lo..hi on st = [data, allocated],
\* all of which find a sector.  The range is halved only to keep the depth of
\* the evaluation logarithmic.
AllocateOnce(st, a) ==
    [data |-> a.data, allocated |-> IF a.ok THEN Append(st.allocated, a.ret) ELSE st.allocated]

RECURSIVE AllocateTimes(_, _, _)
AllocateTimes(st, lo, hi) ==
    IF st.data.len < 0 \/ lo > hi THEN st
    ELSE IF lo = hi THEN AllocateOnce(st, allocate_sector(st.data))
    ELSE AllocateTimes(AllocateTimes(st, lo, (lo + hi) \div 2), (lo + hi) \div 2 + 1, hi)

\* The add_catalog_entry calls numbered lo..hi, each with the arguments `in`
RECURSIVE AppendTimes(_, _, _, _)
AppendTimes(d, in, lo, hi) ==
    IF d.len < 0 \/ lo > hi THEN d
    ELSE IF lo = hi
    THEN add_catalog_entry(d, in.name, in.type, in.track, in.sector, in.count).data
    ELSE AppendTimes(AppendTimes(d, in, lo, (lo + hi) \div 2), in, (lo + hi) \div 2 + 1, hi)

\* The save_basic_program calls numbered lo..hi on st = [data, allocated], each
\* with the same name and program
WriteOnce(st, r) == [data |-> r.data, allocated |-> st.allocated \o r.allocs]

RECURSIVE WriteTimes(_, _, _, _, _)
WriteTimes(st, name, tokenized, lo, hi) ==
    IF st.data.len < 0 \/ lo > hi THEN st
    ELSE IF lo = hi THEN WriteOnce(st, save_basic_program(st.data, name, tokenized))
    ELSE WriteTimes(WriteTimes(st, name, tokenized, lo, (lo + hi) \div 2),
                    name, tokenized, (lo + hi) \div 2 + 1, hi)

\* The volume after format(254)
Fresh == [data |-> format(BlankData, 254), allocated |-> <<>>]

\* The arguments of the add_catalog_entry calls made on a volume in use
UsedEntry == [name |-> NameHello, type |-> 2, track |-> 18, sector |-> 0, count |-> 4]

\* The volume after format(254), k allocate_sector calls and then j
\* add_catalog_entry calls
AfterAppends(st, j) ==
    [data |-> AppendTimes(st.data, UsedEntry, 1, j), allocated |-> st.allocated,
     appends |-> j]

Used(k, j) == AfterAppends(AllocateTimes(Fresh, 1, k), j)

\* The 16-bit free bitmap of each track in the VTOC of the image file: track 17
\* all free, four sectors of track 21, two of track 16, one of track 0
ImageBitmap(track) ==
    IF track = 17 THEN 65535
    ELSE IF track = 21 THEN 240
    ELSE IF track = 16 THEN 32769
    ELSE IF track = 0 THEN 2
    ELSE 0

\* A volume read from an image file (DOS33Disk(filename), lines 81-83): a
\* formatted volume whose VTOC holds the bitmaps above
ImageVtoc ==
    [i \in 1..BYTES_PER_SECTOR |->
        LET off == i - 1
        IN  IF off >= 56 /\ off < 56 + TRACKS * 4
            THEN (IF (off - 56) % 4 = 0 THEN ImageBitmap((off - 56) \div 4) % 256
                  ELSE IF (off - 56) % 4 = 1 THEN ImageBitmap((off - 56) \div 4) \div 256
                  ELSE 0)
            ELSE FormatVtoc(254)[i]]

ImageData == write_sector(format(BlankData, 254), VTOC_TRACK, VTOC_SECTOR, ImageVtoc).data

\* ------------------------------------------------------------ SpecAlloc
\* A freshly formatted volume or the image, then allocate_sector calls only,
\* until MaxFails of them have raised
InitAlloc ==
    /\ \/ /\ data \in {format(BlankData, v) : v \in {1, 254}}
          /\ origin = "format"
       \/ /\ data = ImageData
          /\ origin = "image"
    /\ allocated = <<>>
    /\ last = NoCall
    /\ calls = 0
    /\ fails = 0
    /\ appends = 0
    /\ tok = NoRun
    /\ image = NoFile
    /\ emu = NoEmu

NextAlloc == fails < MaxFails /\ DoAllocate

SpecAlloc == InitAlloc /\ [][NextAlloc]_vars

\* ------------------------------------------------------------ Spec
\* The bounds of the used volumes: sectors allocated and entries added before
PreAllocated == 541
PreEntries == 104

\* The programs save_basic_program is called with: name and tokenized bytes
WriteInputs ==
    { <<NameHello, ProgramBytes(2)>>,
      <<NameLong, ProgramBytes(257)>>,
      <<NameTrail, ProgramBytes(3 * BYTES_PER_SECTOR)>> }

\* The formatted volumes in use that a run starts from
UsedVolumes == {Used(k, j) : k \in {0, PreAllocated}, j \in {0, PreEntries}}

\* A new blank volume, or a formatted volume in use; then any calls of format,
\* allocate_sector, add_catalog_entry and save_basic_program
Init ==
    /\ \/ /\ data = BlankData
          /\ allocated = <<>>
          /\ origin = "blank"
          /\ appends = 0
       \/ /\ \E u \in UsedVolumes :
                /\ data = u.data
                /\ allocated = u.allocated
                /\ appends = u.appends
          /\ origin = "format"
    /\ last = NoCall
    /\ calls = 0
    /\ fails = 0
    /\ tok = NoRun
    /\ image = NoFile
    /\ emu = NoEmu

CallFormat == calls < MaxCalls /\ DoFormat(254)
CallAllocate == calls < MaxCalls /\ DoAllocate
CallAppend == calls < MaxCalls /\ \E in \in AppendInputs : DoAppend(in)
CallWrite == calls < MaxCalls /\ \E w \in WriteInputs : DoWrite(w[1], w[2])

Next == CallFormat \/ CallAllocate \/ CallAppend \/ CallWrite

Spec == Init /\ [][Next]_vars

\* ------------------------------------------------------------ SpecWrite
\* The bounds of SpecWrite: the calls of a run, the data sectors of the large
\* program, and the programs saved before on the volume in use
MaxWrites == 6
LargeSectors == 105
PreWrites == 104

\* The volume after format(254) and PreWrites calls of save_basic_program with
\* the smallest program
Written == WriteTimes(Fresh, NameHello, ProgramBytes(2), 1, PreWrites)

\* A freshly formatted volume, or that volume after PreWrites programs; then
\* save_basic_program calls only
InitWrite ==
    /\ \E u \in {Fresh, Written} :
          /\ data = u.data
          /\ allocated = u.allocated
    /\ origin = "format"
    /\ last = NoCall
    /\ calls = 0
    /\ fails = 0
    /\ appends = 0
    /\ tok = NoRun
    /\ image = NoFile
    /\ emu = NoEmu

SaveSmall == calls < MaxWrites /\ DoWrite(NameTrail, ProgramBytes(2))
SaveLarge == calls < MaxWrites /\ DoWrite(NameLong, ProgramBytes(LargeSectors * BYTES_PER_SECTOR))

NextWrite == SaveSmall \/ SaveLarge

SpecWrite == InitWrite /\ [][NextWrite]_vars

\* ------------------------------------------------------------ SpecCap
\* The calls of a run of SpecCap
MaxCapCalls == 4

\* The pairs a track/sector list has room for: the offsets 0x0C, 0x0E, ...
\* below BYTES_PER_SECTOR (lines 289, 297-299)
ListPairs == (BYTES_PER_SECTOR - 12) \div 2

\* A freshly formatted volume, or that volume after PreWrites programs; then
\* save_basic_program calls with a program of two bytes, one that fills the
\* track/sector list, and one that needs one sector more
InitCap ==
    /\ \E u \in {Fresh, Written} :
          /\ data = u.data
          /\ allocated = u.allocated
    /\ origin = "format"
    /\ last = NoCall
    /\ calls = 0
    /\ fails = 0
    /\ appends = 0
    /\ tok = NoRun
    /\ image = NoFile
    /\ emu = NoEmu

CapSmall == calls < MaxCapCalls /\ DoWrite(NameTrail, ProgramBytes(2))
CapFull == calls < MaxCapCalls /\ DoWrite(NameHello, ProgramBytes(ListPairs * BYTES_PER_SECTOR))
CapOver == calls < MaxCapCalls /\ DoWrite(NameLong, ProgramBytes(ListPairs * BYTES_PER_SECTOR + 1))

NextCap == CapSmall \/ CapFull \/ CapOver

SpecCap == InitCap /\ [][NextCap]_vars

\* ------------------------------------------------------------ SpecSector
\* The sectors and the bytes write_sector is called with
SectorCoords == {<<0, 0>>, <<17, 0>>, <<34, 15>>}

SectorInputs ==
    { <<>>,
      <<1, 2, 3>>,
      [i \in 1..BYTES_PER_SECTOR |-> 1 + (i % 255)],
      [i \in 1..(BYTES_PER_SECTOR + 1) |-> 1 + (i % 255)] }

\* A new blank volume or a formatted one; then any calls of write_sector and format
InitSector ==
    /\ \/ /\ data = BlankData
          /\ origin = "blank"
       \/ /\ data = Fresh.data
          /\ origin = "format"
    /\ allocated = <<>>
    /\ last = NoCall
    /\ calls = 0
    /\ fails = 0
    /\ appends = 0
    /\ tok = NoRun
    /\ image = NoFile
    /\ emu = NoEmu

PutSectorCall ==
    /\ calls < MaxCalls
    /\ \E c \in SectorCoords, b \in SectorInputs : DoWriteSector(c[1], c[2], b)

FormatCall == calls < MaxCalls /\ \E v \in {1, 254} : DoFormat(v)

NextSector == PutSectorCall \/ FormatCall

SpecSector == InitSector /\ [][NextSector]_vars

\* ------------------------------------------------------------ SpecAppend
\* The add_catalog_entry calls of a run whose arguments are free; the later
\* calls take their arguments in turn
BranchCalls == 2

\* Arguments whose track is neither 0 nor 0xFF
ListableInputs ==
    << [name |-> NameHello, type |-> 2, track |-> 18, sector |-> 0, count |-> 4],
       [name |-> NameLong, type |-> 132, track |-> 20, sector |-> 3, count |-> 300],
       [name |-> NameTrail, type |-> 1, track |-> 19, sector |-> 7, count |-> 1] >>

\* A freshly formatted volume, then add_catalog_entry calls only, each with a
\* track other than 0 and 0xFF, until MaxFails of them have raised
InitAppend ==
    /\ data \in {format(BlankData, v) : v \in {1, 254}}
    /\ origin = "format"
    /\ allocated = <<>>
    /\ last = NoCall
    /\ calls = 0
    /\ fails = 0
    /\ appends = 0
    /\ tok = NoRun
    /\ image = NoFile
    /\ emu = NoEmu

NextAppend ==
    /\ fails < MaxFails
    /\ \E k \in 1..Len(ListableInputs) :
          /\ calls >= BranchCalls => k = (calls % Len(ListableInputs)) + 1
          /\ DoAppend(ListableInputs[k])

SpecAppend == InitAppend /\ [][NextAppend]_vars

\* ------------------------------------------------------------ SpecFile
\* The calls of a run of SpecFile
MaxFileCalls == 3

\* A full sector of bytes none of which is zero
FullSector == [i \in 1..BYTES_PER_SECTOR |-> 1 + (i % 255)]

\* A catalog sector (17, 15) as another program may have left it: slot 0 in
\* use, slot 1 deleted, slot 2 empty, slot 3 in use, the other slots empty
MixedCatalogSector ==
    EntryBytes(
        EntryBytes(
            EntryBytes(FormatCatalogSector(FIRST_CATALOG_SECTOR),
                       EntryOffset(0), NameHello, 2, 18, 0, 4),
            EntryOffset(1), NameLong, 4, 255, 9, 7),
        EntryOffset(3), NameTrail, 132, 20, 3, 300)

\* A blank or a formatted volume, fresh or with PreEntries catalog entries,
\* without a file name, the image file absent or holding an image; then any
\* calls of format, write_sector, allocate_sector, add_catalog_entry,
\* save_basic_program, catalog, save, and the opening of the image file by a
\* new object
InitFile ==
    /\ \/ /\ data = BlankData
          /\ origin = "blank"
       \/ /\ data \in {Fresh.data, Used(0, PreEntries).data}
          /\ origin = "format"
    /\ allocated = <<>>
    /\ last = NoCall
    /\ calls = 0
    /\ fails = 0
    /\ appends = 0
    /\ tok = NoRun
    /\ image \in {NoFile,
                  [filename |-> "", exists |-> TRUE, content |-> ImageData, saved |-> ImageData]}
    /\ emu = NoEmu

FileFormat == calls < MaxFileCalls /\ DoFormat(254)
FilePutPart == calls < MaxFileCalls /\ DoWriteSector(34, 15, <<1, 2, 3>>)
FilePutFull == calls < MaxFileCalls /\ DoWriteSector(0, 0, FullSector)
FileAllocate == calls < MaxFileCalls /\ DoAllocate
FileAppend == calls < MaxFileCalls /\ DoAppend(UsedEntry)
FileWrite == calls < MaxFileCalls /\ DoWrite(NameLong, ProgramBytes(257))
FilePutCatalog ==
    calls < MaxFileCalls /\ DoWriteSector(CATALOG_TRACK, FIRST_CATALOG_SECTOR, MixedCatalogSector)
FileCatalog == calls < MaxFileCalls /\ DoCatalog
FileSave == calls < MaxFileCalls /\ \E f \in {"", ImageName} : DoSave(f)
FileOpen == calls < MaxFileCalls /\ \E f \in {"", ImageName} : DoOpen(f)

NextFile ==
    \/ FileFormat \/ FilePutPart \/ FilePutFull \/ FileAllocate
    \/ FileAppend \/ FileWrite \/ FileSave \/ FileOpen
    \/ FilePutCatalog \/ FileCatalog

SpecFile == InitFile /\ [][NextFile]_vars

\* ------------------------------------------------------------ SpecAddr
\* The calls of a run of SpecAddr
MaxAddrCalls == 2

\* The offsets offset_to_ts is called with: the start of every sector of the
\* volume
SectorOffsets == {n * BYTES_PER_SECTOR : n \in 0..(TRACKS * SECTORS_PER_TRACK - 1)}

\* ts_to_offset(track, sector) or offset_to_ts(offset) is called, and then each
\* of the two with what the other returned
InitAddr ==
    /\ data = BlankData
    /\ origin = "blank"
    /\ allocated = <<>>
    /\ last = NoCall
    /\ calls = 0
    /\ fails = 0
    /\ appends = 0
    /\ tok = NoRun
    /\ image = NoFile
    /\ emu = NoEmu

DoToOffset(track, sector) ==
    /\ last' = [NoCall EXCEPT !.op = "ts_to_offset", !.arg = <<track, sector>>,
                              !.ret = <<ts_to_offset(track, sector)>>]
    /\ calls' = calls + 1
    /\ UNCHANGED <<data, allocated, fails, origin, appends, tok, image, emu>>

DoToCoordinates(offset) ==
    /\ last' = [NoCall EXCEPT !.op = "offset_to_ts", !.arg = <<offset>>,
                              !.ret = offset_to_ts(offset)]
    /\ calls' = calls + 1
    /\ UNCHANGED <<data, allocated, fails, origin, appends, tok, image, emu>>

AddrToOffset ==
    /\ calls = 0
    /\ \E track \in 0..(TRACKS - 1), sector \in 0..(SECTORS_PER_TRACK - 1) :
          DoToOffset(track, sector)

AddrToCoordinates ==
    /\ calls = 0
    /\ \E offset \in SectorOffsets : DoToCoordinates(offset)

\* offset_to_ts is called with what ts_to_offset returned, and the other way round
AddrBack ==
    /\ calls < MaxAddrCalls
    /\ \/ last.op = "ts_to_offset" /\ DoToCoordinates(last.ret[1])
       \/ last.op = "offset_to_ts" /\ DoToOffset(last.ret[1], last.ret[2])

NextAddr == AddrToOffset \/ AddrToCoordinates \/ AddrBack

SpecAddr == InitAddr /\ [][NextAddr]_vars

\* ------------------------------------------------------------ SpecTok
\* tokenize_basic(source) is entered (lines 321-325).  tok.pc is the position:
\* "line" at the head of the for loop with tok.ln lines done, "scan" at the
\* head of tokenize_line's while loop, "done" after the return.  tok.recs
\* keeps, for each line framed so far, the length of the output before it, its
\* line number and its token bytes.
Entered(source) ==
    [pc |-> "line", source |-> source, lines |-> SourceLines(source), ln |-> 0,
     line |-> <<>>, line_num |-> 0,
     scan |-> ScanStart, acc |-> BasicStart, recs |-> <<>>, result |-> <<>>]

\* The line the for loop takes next
CurrentLine == tok.lines[tok.ln + 1]

\* Lines 328-340: the next line is blank or has no line number
TokSkip ==
    /\ tok.pc = "line"
    /\ tok.ln < Len(tok.lines)
    /\ ~Accepted(CurrentLine)
    /\ tok' = [tok EXCEPT !.acc = Skipped(tok.acc), !.ln = tok.ln + 1]
    /\ UNCHANGED <<data, allocated, last, calls, fails, origin, appends, image, emu>>

\* Lines 328-345 and 370-373: the next line has a line number, and
\* tokenize_line is entered with the rest of it
TokAccept ==
    /\ tok.pc = "line"
    /\ tok.ln < Len(tok.lines)
    /\ Accepted(CurrentLine)
    /\ tok' = [tok EXCEPT !.pc = "scan",
                          !.line_num = IntValue(FirstPart(strip(CurrentLine))),
                          !.line = RestPart(strip(CurrentLine)),
                          !.scan = ScanStart]
    /\ UNCHANGED <<data, allocated, last, calls, fails, origin, appends, image, emu>>

\* Lines 375-409: one pass of the while loop
TokScan ==
    /\ tok.pc = "scan"
    /\ tok.scan.i < Len(tok.line)
    /\ tok' = [tok EXCEPT !.scan = ScanStep(tok.line, tok.scan)]
    /\ UNCHANGED <<data, allocated, last, calls, fails, origin, appends, image, emu>>

\* Lines 411 and 348-359: tokenize_line returns and the line is framed
TokFrame ==
    /\ tok.pc = "scan"
    /\ tok.scan.i >= Len(tok.line)
    /\ tok' = [tok EXCEPT !.pc = "line",
                          !.ln = tok.ln + 1,
                          !.acc = FrameLine(tok.acc, tok.line_num, tok.scan.output),
                          !.recs = Append(tok.recs,
                                          [start |-> Len(tok.acc.output),
                                           address |-> tok.acc.address,
                                           line_num |-> tok.line_num,
                                           tokens |-> tok.scan.output])]
    /\ UNCHANGED <<data, allocated, last, calls, fails, origin, appends, image, emu>>

\* Lines 362-365: the loop is over, the marker is appended and the bytes returned
TokFinish ==
    /\ tok.pc = "line"
    /\ tok.ln >= Len(tok.lines)
    /\ tok' = [tok EXCEPT !.pc = "done", !.result = tok.acc.output \o EndMarker]
    /\ UNCHANGED <<data, allocated, last, calls, fails, origin, appends, image, emu>>

\* The most pieces a composed line is made of
MaxPieces == 3

\* The pieces: a quote, REM in two cases, PRINT, AT, N, a lower-case letter,
\* a space and =
Pieces ==
    { <<34>>, <<82, 69, 77>>, <<114, 69, 109>>, <<80, 82, 73, 78, 84>>,
      <<65, 84>>, <<78>>, <<120>>, <<32>>, <<61>> }

RECURSIVE PieceTexts(_)
PieceTexts(n) ==
    IF n = 0 THEN {<<>>}
    ELSE PieceTexts(n - 1) \cup {t \o p : t \in PieceTexts(n - 1), p \in Pieces}

\* The one-line programs "10 " followed by at most MaxPieces pieces
ComposedSources == {<<49, 48, 32>> \o t : t \in PieceTexts(MaxPieces)}

\* Programs of several lines, blank and malformed lines among them
FixedSources ==
    {
      \* ''
      <<>>,
      \* '  \n\t\n'
      <<32, 32, 10, 9, 10>>,
      \* '10 FOR I = 1 TO 10'
      <<49, 48, 32, 70, 79, 82, 32, 73, 32, 61, 32, 49, 32, 84, 79, 32, 49, 48>>,
      \* '10 print "for rem":rem "to" End\n20 goto 10\n'
      <<49, 48, 32, 112, 114, 105, 110, 116, 32, 34, 102, 111, 114, 32, 114, 101, 109, 34, 58, 114, 101, 109, 32, 34, 116, 111, 34, 32, 69, 110, 100, 10, 50, 48, 32, 103, 111, 116, 111, 32, 49, 48, 10>>,
      \* 'hello\n\n10PRINT\n1__0 A\n30 END'
      <<104, 101, 108, 108, 111, 10, 10, 49, 48, 80, 82, 73, 78, 84, 10, 49, 95, 95, 48, 32, 65, 10, 51, 48, 32, 69, 78, 68>>,
      \* 'foo\n \nbar'
      <<102, 111, 111, 10, 32, 10, 98, 97, 114>>,
      \* '-10 X\n+5 A\n1_0 B\n70000 C'
      <<45, 49, 48, 32, 88, 10, 43, 53, 32, 65, 10, 49, 95, 48, 32, 66, 10, 55, 48, 48, 48, 48, 32, 67>>,
      \* '10 HGR2:HGR:GR\r\n20 ONERR GOTO 5\r\n30 ATN AT NOTRACE\r\n'
      <<49, 48, 32, 72, 71, 82, 50, 58, 72, 71, 82, 58, 71, 82, 13, 10, 50, 48, 32, 79, 78, 69, 82, 82, 32, 71, 79, 84, 79, 32, 53, 13, 10, 51, 48, 32, 65, 84, 78, 32, 65, 84, 32, 78, 79, 84, 82, 65, 67, 69, 13, 10>>,
      \* '10'
      <<49, 48>>,
      \* '10 A\n\n\n20 B\nx\n30 C'
      <<49, 48, 32, 65, 10, 10, 10, 50, 48, 32, 66, 10, 120, 10, 51, 48, 32, 67>>,
      \* '10 ?"unterminated rem\n20 rEm "q" print\n30 END'
      <<49, 48, 32, 63, 34, 117, 110, 116, 101, 114, 109, 105, 110, 97, 116, 101, 100, 32, 114, 101, 109, 10, 50, 48, 32, 114, 69, 109, 32, 34, 113, 34, 32, 112, 114, 105, 110, 116, 10, 51, 48, 32, 69, 78, 68>>,
      \* '  10   COLOR=5  \n\t20\tTAB(TO\n'
      <<32, 32, 49, 48, 32, 32, 32, 67, 79, 76, 79, 82, 61, 53, 32, 32, 10, 9, 50, 48, 9, 84, 65, 66, 40, 84, 79, 10>> }

Sources == FixedSources \cup ComposedSources

\* tokenize_basic is called with one of the sources and runs to its return
InitTok ==
    /\ data = BlankData
    /\ allocated = <<>>
    /\ last = NoCall
    /\ calls = 0
    /\ fails = 0
    /\ origin = "blank"
    /\ appends = 0
    /\ tok \in {Entered(source) : source \in Sources}
    /\ image = NoFile
    /\ emu = NoEmu

NextTok == TokSkip \/ TokAccept \/ TokScan \/ TokFrame \/ TokFinish

SpecTok == InitTok /\ [][NextTok]_vars

\* ------------------------------------------------------------ SpecEmu
\* The calls made on one Emulator object, each with what the emulator
\* process and the control socket answer during it.

\* The largest max_retries enter_debugger is called with, and the most
\* attempts that time out in a row; at least DefaultRetries
MaxRetries == 3

\* An environment in which everything answers at once
BaseEnv ==
    [verify |-> "match", timeouts |-> 0, final |-> "prompt", cmd |-> "ok", exit |-> "ok",
     sock |-> "ok", resume |-> "ok", quit |-> "eof", keys |-> "ok", boot |-> "prompt",
     connect |-> TRUE, ping |-> "ok", gone |-> 0]

\* The process ends by itself during a call on e, after the call has found it
\* running: the environments of `before` up to the read that finds it ended
GoneEnvs(e, before, reads) ==
    IF is_running(e) /\ ~e.control_socket
    THEN {[n EXCEPT !.gone = g] : n \in before, g \in reads}
    ELSE {}

\* What the process can answer while enter_debugger runs on e: the 'help'
\* check is reached only with in_debugger set, and the attempts only when
\* it times out; at most `most` attempts time out in a row
EnterEnvsUpTo(e, most) ==
    (IF e.in_debugger
     THEN {[BaseEnv EXCEPT !.verify = v] : v \in {"match", "eof"}}
     ELSE {})
    \cup {[BaseEnv EXCEPT !.verify = "timeout", !.timeouts = t, !.final = f] :
             t \in 0..most, f \in AttemptOutcomes \ {"timeout"}}

EnterEnvs(e) == EnterEnvsUpTo(e, MaxRetries)

\* ... while exit_debugger runs
ExitEnvs == {[BaseEnv EXCEPT !.exit = x] : x \in {"ok", "eof", "died"}}

\* ... while debugger_command runs: the command is answered and the exit
\* goes one of its ways, or the command meets EOF
CommandEnvsOver(enters) ==
    {[n EXCEPT !.cmd = c[1], !.exit = c[2]] :
        n \in enters,
        c \in {<<"ok", "ok">>, <<"ok", "eof">>, <<"ok", "died">>, <<"eof", "ok">>}}

\* or the process ends between the read of line 422 and that of line 295
CommandEnvs(e) ==
    CommandEnvsOver(EnterEnvs(e))
    \cup (IF e.in_debugger THEN {} ELSE GoneEnvs(e, {BaseEnv}, {2}))

\* What the control socket answers to resume and to the command after it
SockEnvs == {[BaseEnv EXCEPT !.sock = s, !.resume = r] : s \in SockOutcomes, r \in SockOutcomes}

\* ... while a method with a socket path and a debugger path runs
MethodEnvs(e) == IF e.control_socket THEN SockEnvs ELSE CommandEnvs(e)

\* ... while get_registers or reset runs: on their debugger path
\* enter_debugger runs a second time, inside debugger_command, when the
\* first gave up
TwiceEnvs(e) ==
    IF e.control_socket THEN SockEnvs
    ELSE CommandEnvsOver(EnterEnvsUpTo(e, MaxRetries + DefaultRetries))
         \cup (IF e.in_debugger THEN {}
               ELSE GoneEnvs(e, EnterEnvsUpTo(e, DefaultRetries), {2, 3}))

\* ... while inject_keys runs
KeysEnvs(e) ==
    IF e.control_socket THEN SockEnvs
    ELSE {[n EXCEPT !.keys = k] :
             n \in EnterEnvs(e), k \in {"ok", "eof", "eof_prompt", "died"}}
         \cup GoneEnvs(e, {BaseEnv}, {2})

\* ... while shutdown runs
ShutdownEnvs(e) ==
    {[n EXCEPT !.sock = s, !.quit = q] :
        n \in EnterEnvs(e),
        s \in (IF e.control_socket THEN SockOutcomes ELSE {"ok"}),
        q \in {"eof", "timeout"}}

\* ... while boot runs: the prompt does not come, or it does and the control
\* socket does not connect, or connects and answers the ping
BootEnvs(e) ==
    {[n EXCEPT !.boot = b[1], !.connect = b[2], !.ping = b[3]] :
        n \in (IF is_running(e)
               THEN ShutdownEnvs(e)
                    \cup {[BaseEnv EXCEPT !.sock = s, !.gone = 2] :
                            s \in (IF e.control_socket THEN SockOutcomes ELSE {"ok"})}
               ELSE {BaseEnv}),
        b \in {<<"timeout", TRUE, "ok">>, <<"eof", TRUE, "ok">>, <<"died", TRUE, "ok">>,
               <<"prompt", FALSE, "ok">>}
              \cup {<<"prompt", TRUE, p>> : p \in SockOutcomes}}

\* The object after a call: its fields, what the call sent, and its outcome
Done(r, op, retries) ==
    [r.e EXCEPT !.op = op, !.ret = r.ret, !.exc = r.exc, !.retries = retries]

EmuFrame == UNCHANGED <<data, allocated, last, calls, fails, origin, appends, tok, image>>

EmuBoot ==
    /\ \E env \in BootEnvs(emu) : emu' = Done(boot(Begin(emu), env), "boot", 0)
    /\ EmuFrame

EmuShutdown ==
    /\ \E env \in ShutdownEnvs(emu) : emu' = Done(shutdown(Begin(emu), env), "shutdown", 0)
    /\ EmuFrame

EmuEnter ==
    /\ \E max_retries \in 0..MaxRetries, env \in EnterEnvs(emu) :
          emu' = Done(enter_debugger(Begin(emu), max_retries, env), "enter_debugger",
                      max_retries)
    /\ EmuFrame

\* exit_debugger is called by the methods that hold a running process
EmuExit ==
    /\ emu.process # "none"
    /\ \E env \in ExitEnvs : emu' = Done(exit_debugger(Begin(emu), env), "exit_debugger", 0)
    /\ EmuFrame

EmuCommand ==
    /\ \E cmd \in {"addr", "c"}, stay_in_debugger \in BOOLEAN, env \in CommandEnvs(emu) :
          emu' = Done(debugger_command(Begin(emu), cmd, stay_in_debugger, env),
                      "debugger_command", 0)
    /\ EmuFrame

EmuPeek ==
    /\ \E env \in MethodEnvs(emu) : emu' = Done(peek(Begin(emu), env), "peek", 0)
    /\ EmuFrame

EmuPoke ==
    /\ \E env \in MethodEnvs(emu) : emu' = Done(poke(Begin(emu), env), "poke", 0)
    /\ EmuFrame

EmuLoad ==
    /\ \E env \in MethodEnvs(emu) : emu' = Done(load(Begin(emu), env), "load", 0)
    /\ EmuFrame

EmuReadScreen ==
    /\ \E env \in MethodEnvs(emu) : emu' = Done(read_screen(Begin(emu), env), "read_screen", 0)
    /\ EmuFrame

EmuInjectKeys ==
    /\ \E env \in KeysEnvs(emu) : emu' = Done(inject_keys(Begin(emu), env), "inject_keys", 0)
    /\ EmuFrame

EmuGetRegisters ==
    /\ \E env \in TwiceEnvs(emu) :
          emu' = Done(get_registers(Begin(emu), env), "get_registers", 0)
    /\ EmuFrame

EmuReset ==
    /\ \E env \in TwiceEnvs(emu) : emu' = Done(reset(Begin(emu), env), "reset", 0)
    /\ EmuFrame

\* The emulator process ends by itself between two calls
EmuDies ==
    /\ emu.process = "alive"
    /\ emu' = Done(Returns([Begin(emu) EXCEPT !.process = "dead"], ""), "died", 0)
    /\ EmuFrame

InitEmu ==
    /\ data = BlankData
    /\ allocated = <<>>
    /\ last = NoCall
    /\ calls = 0
    /\ fails = 0
    /\ origin = "blank"
    /\ appends = 0
    /\ tok = NoRun
    /\ image = NoFile
    /\ emu \in {NewEmulator(socket_path) : socket_path \in BOOLEAN}

NextEmu ==
    \/ EmuBoot \/ EmuShutdown \/ EmuEnter \/ EmuExit \/ EmuCommand
    \/ EmuPeek \/ EmuPoke \/ EmuLoad \/ EmuReadScreen \/ EmuInjectKeys
    \/ EmuGetRegisters \/ EmuReset \/ EmuDies

SpecEmu == InitEmu /\ [][NextEmu]_vars

\* ------------------------------------------------------------ properties
\* The volume's free bitmap as spec'd: sector c[2] of track c[1] is free when
\* bit c[2] of the 16-bit little-endian value at VTOC offset 0x38 + 4 * c[1] is set
MarkedFree(d, c) ==
    Bit(read_sector(d, VTOC_TRACK, VTOC_SECTOR)[56 + 4 * c[1] + (c[2] \div 8) + 1],
        c[2] % 8) = 1

AllSectors == (0..(TRACKS - 1)) \X (0..(SECTORS_PER_TRACK - 1))

\* The order in which the allocator is said to search: tracks 18 up to 34, then
\* 16 down to 0, the sectors of a track from 0 up to 15; track 17 is not searched
SearchTracks ==
    <<18, 19, 20, 21, 22, 23, 24, 25, 26, 27, 28, 29, 30, 31, 32, 33, 34,
      16, 15, 14, 13, 12, 11, 10, 9, 8, 7, 6, 5, 4, 3, 2, 1, 0>>

SearchOrder ==
    [k \in 1..(Len(SearchTracks) * SECTORS_PER_TRACK) |->
        <<SearchTracks[(k - 1) \div SECTORS_PER_TRACK + 1], (k - 1) % SECTORS_PER_TRACK>>]

\* C1: the allocator never returns a sector on track 17 and never returns the
\* same (track, sector) twice since the last format, whatever add_catalog_entry
\* and save_basic_program calls are made in between.
C1_NoTrack17NoRepeat ==
    /\ \A i \in 1..Len(allocated) : allocated[i][1] # VTOC_TRACK
    /\ Cardinality({allocated[i] : i \in 1..Len(allocated)}) = Len(allocated)

\* Three calls on a fresh volume that end in an allocation and gave out five
\* sectors: allocations of save_basic_program preceded this one
C1_Witness ==
    /\ last.op = "allocate_sector"
    /\ last.ok
    /\ calls = 3
    /\ Len(allocated) = 5
    /\ Len(catalog(data)) = 2

\* C2: on a freshly formatted volume exactly 34 * 16 = 544 consecutive
\* allocate_sector calls succeed, and every later one fails with "disk full".
C2_Exactly544 ==
    (origin = "format" /\ last.op = "allocate_sector") =>
        /\ last.ok <=> calls <= (TRACKS - 1) * SECTORS_PER_TRACK
        /\ ~last.ok => last.err = "disk full" /\ Len(allocated) = 544

C2_Witness ==
    /\ origin = "format"
    /\ last.op = "allocate_sector"
    /\ ~last.ok
    /\ calls = 546
    /\ Len(allocated) = 544

\* C3: allocate_sector returns the first sector marked free in the search order
\* (tracks 18..34, then 16..0, sectors 0..15 within a track) and marks it used,
\* or fails when none is free; so on a freshly formatted volume the k-th
\* allocation is sector (k-1) mod 16 of track number (k-1) div 16 of that
\* order, its tracks numbered from 0.
FirstFitStep ==
    (last'.op = "allocate_sector") =>
        LET free == {k \in DOMAIN SearchOrder : MarkedFree(data, SearchOrder[k])}
        IN  IF free = {}
            THEN ~last'.ok /\ data' = data
            ELSE /\ last'.ok
                 /\ last'.ret = SearchOrder[Least(free)]
                 /\ ~MarkedFree(data', last'.ret)
                 /\ \A c \in AllSectors \ {last'.ret} :
                        MarkedFree(data', c) <=> MarkedFree(data, c)

KthAllocation ==
    origin = "format" =>
        \A k \in 1..Len(allocated) :
            allocated[k] = <<SearchTracks[(k - 1) \div 16 + 1], (k - 1) % 16>>

C3_FirstFitOrder == [][FirstFitStep]_vars /\ []KthAllocation

\* The 273rd allocation on a fresh volume is the first of track 16, and the
\* last one is sector 15 of track 0
C3_Witness ==
    /\ origin = "format"
    /\ Len(allocated) = 544
    /\ allocated[273] = <<16, 0>>
    /\ last.ret = <<0, 15>>

\* The sectors that are free before a call and used after it
NewlyUsed == {c \in AllSectors : MarkedFree(data, c) /\ ~MarkedFree(data', c)}

\* No sector that is used before a call is free after it
NoneFreed == \A c \in AllSectors : ~MarkedFree(data, c) => ~MarkedFree(data', c)

Range(f) == {f[i] : i \in DOMAIN f}

\* C4: over any sequence of save_basic_program calls on a freshly formatted
\* volume, every call that returns adds exactly one entry to catalog(), and no
\* call, returning or raising, removes or alters an entry catalog() listed
\* before it: the earlier list is a prefix of the later one.
AppendedNotRemoved ==
    (last'.op = "save_basic_program") =>
        LET before == catalog(data)
            after == catalog(data')
        IN  /\ last'.ok => Len(after) = Len(before) + 1
            /\ Len(after) >= Len(before)
            /\ SubSeq(after, 1, Len(before)) = before

C4_EntriesAppendedNeverRemoved == [][AppendedNotRemoved]_vars

\* The name catalog() is to give for a file name: upper-cased, cut to 30
\* characters, trailing whitespace trimmed
ListedName(name) == rstrip(Slice(upper(name), 0, 30))

\* The type tag of a type byte: Applesoft (bit 1) is checked first, then
\* Integer BASIC (bit 0), then binary (bit 2), else text
TagOf(type) ==
    IF (type \div 2) % 2 = 1 THEN "A"
    ELSE IF type % 2 = 1 THEN "I"
    ELSE IF (type \div 4) % 2 = 1 THEN "B"
    ELSE "T"

\* catalog() lists an entry with the name, tag, lock flag and count of the
\* arguments `in` of add_catalog_entry
ListsEntryOf(d, in) ==
    LET listed == catalog(d)
        name == ListedName(in.name)
    IN  \E i \in DOMAIN listed :
            /\ listed[i].name = name
            /\ listed[i].type = TagOf(in.type)
            /\ listed[i].locked = ((in.type \div 128) % 2 = 1)
            /\ listed[i].sectors = in.count

\* C5 as stated: after every add_catalog_entry that returns, catalog() lists
\* an entry with the upper-cased, truncated, trimmed name, the type tag, the
\* lock flag (bit 7 of the type byte) and the sector count given.
C5_AppendRoundTripAnyEntry ==
    (last.op = "add_catalog_entry" /\ last.ok) => ListsEntryOf(data, last.arg)

\* C5, restricted: the same, for an add_catalog_entry whose track is neither 0
\* nor 0xFF (the marks of an empty and of a deleted slot) and whose sector
\* count fits the 16 bits of the entry.
C5_AppendRoundTrip ==
    (/\ last.op = "add_catalog_entry"
     /\ last.ok
     /\ last.arg.track \notin {0, 255}
     /\ last.arg.count < 65536) => ListsEntryOf(data, last.arg)

\* A locked entry with a 35-character name and a count above 255 was added as
\* the third of a run
C5_Witness ==
    /\ last.op = "add_catalog_entry"
    /\ last.ok
    /\ last.arg.name = NameLong
    /\ last.arg.count = 300
    /\ calls = 3
    /\ Len(catalog(data)) >= 2

\* C6: a save_basic_program of N >= 1 tokenized bytes that returns has turned
\* exactly ceil(N/256) + 1 bitmap bits from free to used (and none back), returns
\* ceil(N/256) + 1, and the catalog entry it wrote holds that count and points
\* at the first sector it allocated; for N = 768 the number is 4.
SaveCounts ==
    (last'.op = "save_basic_program" /\ last'.ok) =>
        LET n == last'.arg[2]
            expect == (n + BYTES_PER_SECTOR - 1) \div BYTES_PER_SECTOR + 1
            e == DecodeEntry(read_sector(data', last'.slot[1], last'.slot[2]),
                             EntryOffset(last'.slot[3]))
        IN  /\ n >= 1
            /\ Cardinality(NewlyUsed) = expect
            /\ NewlyUsed = Range(last'.allocs)
            /\ NoneFreed
            /\ last'.ret = expect
            /\ e.sectors = expect
            /\ <<e.ts_track, e.ts_sector>> = last'.allocs[1]
            /\ e.name = ListedName(last'.arg[1])
            /\ n = 3 * BYTES_PER_SECTOR => last'.ret = 4

C6_SaveSectorCount == [][SaveCounts]_vars

C6_Witness ==
    /\ last.op = "save_basic_program"
    /\ last.ok
    /\ last.arg[2] = 768
    /\ last.ret = 4
    /\ Len(last.allocs) = 4
    /\ Len(catalog(data)) = 2

\* C7: right after format(volume_num), whatever the buffer held before, the 4
\* bitmap bytes of track 17 in the VTOC are all zero and those of every other
\* track 0..34 are FF FF 00 00.
C7_FormatBitmap ==
    (last.op = "format") =>
        LET vtoc == read_sector(data, VTOC_TRACK, VTOC_SECTOR)
        IN  \A t \in 0..(TRACKS - 1) :
                SubSeq(vtoc, 56 + 4 * t + 1, 56 + 4 * t + 4) =
                    IF t = 17 THEN <<0, 0, 0, 0>> ELSE <<255, 255, 0, 0>>

\* format(1) as the third call, after two write_sector calls that returned
C7_Witness ==
    /\ last.op = "format"
    /\ last.arg = <<1>>
    /\ calls = 3
    /\ fails = 0

\* C8: write_sector(track, sector, bytes) with at most 256 bytes returns, and
\* then read_sector(track, sector) is the bytes followed by zeros up to 256,
\* every other sector is as before, and the buffer is still 143,360 bytes long.
WholeSectorReplace ==
    (last'.op = "write_sector" /\ Len(last'.arg[3]) <= 256) =>
        LET t == last'.arg[1]
            s == last'.arg[2]
            bytes == last'.arg[3]
        IN  /\ last'.ok
            /\ read_sector(data', t, s) = bytes \o [i \in 1..(256 - Len(bytes)) |-> 0]
            /\ \A c \in AllSectors \ {<<t, s>>} :
                    read_sector(data', c[1], c[2]) = read_sector(data, c[1], c[2])
            /\ data'.len = 143360

C8_WriteSectorReplaces == [][WholeSectorReplace]_vars

\* Three bytes were written over the VTOC of a formatted volume
C8_Witness ==
    /\ last.op = "write_sector"
    /\ last.ok
    /\ last.arg = <<17, 0, <<1, 2, 3>>>>
    /\ origin = "format"
    /\ calls = 1

\* C9: write_sector with more than 256 bytes raises the size error and leaves
\* the whole buffer as it was.
OversizeRejected ==
    (last'.op = "write_sector" /\ Len(last'.arg[3]) > 256) =>
        /\ ~last'.ok
        /\ last'.err = "size"
        /\ data' = data

C9_OversizeWriteRejected == [][OversizeRejected]_vars

C9_Witness ==
    /\ last.op = "write_sector"
    /\ ~last.ok
    /\ last.err = "size"
    /\ Len(last.arg[3]) = 257
    /\ origin = "format"
    /\ data = Fresh.data

\* The index sector of a listed file and the data sectors its index names
FileSectors(d, e) ==
    {<<e.ts_track, e.ts_sector>>} \cup
    {<<read_sector(d, e.ts_track, e.ts_sector)[12 + 2 * j + 1],
       read_sector(d, e.ts_track, e.ts_sector)[12 + 2 * j + 2]>> : j \in 0..(e.sectors - 2)}

\* C10: when save_basic_program raises, the sectors it allocated stay marked
\* used and no sector is freed, catalog() is what it was before the call, and
\* the index and data sectors of every file listed before are unchanged.
FailedSaveKeeps ==
    (last'.op = "save_basic_program" /\ ~last'.ok) =>
        /\ NoneFreed
        /\ NewlyUsed = Range(last'.allocs)
        /\ LET before == catalog(data)
           IN  /\ catalog(data') = before
               /\ \A i \in DOMAIN before :
                     \A c \in FileSectors(data, before[i]) :
                         read_sector(data', c[1], c[2]) = read_sector(data, c[1], c[2])

C10_FailedSaveNoRollback == [][FailedSaveKeeps]_vars

\* The disk filled up part-way through a save, after 14 allocations, on a
\* volume that lists five files
C10_Witness ==
    /\ last.op = "save_basic_program"
    /\ ~last.ok
    /\ last.err = "disk full"
    /\ Len(last.allocs) = 14
    /\ Len(catalog(data)) = 5

\* C11: on a freshly formatted volume exactly 15 * 7 = 105 add_catalog_entry
\* calls with a track other than 0 and 0xFF return, each adding one entry to
\* catalog(); every later call raises "catalog full", and a call that raises
\* leaves the whole buffer as it was.
CapacityReached ==
    (last.op = "add_catalog_entry") =>
        /\ last.ok <=> calls <= 15 * 7
        /\ ~last.ok => last.err = "catalog full"
        /\ Len(catalog(data)) = IF calls <= 105 THEN calls ELSE 105

FailedAppendKeeps ==
    (last'.op = "add_catalog_entry" /\ ~last'.ok) => data' = data

C11_CatalogCapacity == []CapacityReached /\ [][FailedAppendKeeps]_vars

\* The 106th and 107th calls have raised on a volume listing 105 entries
C11_Witness ==
    /\ last.op = "add_catalog_entry"
    /\ ~last.ok
    /\ last.err = "catalog full"
    /\ calls = 107
    /\ Len(catalog(data)) = 105

\* The sectors a listed file names, in order: its index sector, then the
\* (track, sector) pairs its index sector holds for its data sectors
NamedSectors(d, e) ==
    LET index == read_sector(d, e.ts_track, e.ts_sector)
    IN  <<<<e.ts_track, e.ts_sector>>>> \o
        [j \in 1..Min(e.sectors - 1, 122) |-> <<index[12 + 2 * (j - 1) + 1],
                                                index[12 + 2 * (j - 1) + 2]>>]

\* Every sector a listed file names is marked used, no file names a sector
\* twice, and no two listed files name the same sector
Consistent(d) ==
    LET files == catalog(d)
        named == [i \in DOMAIN files |-> NamedSectors(d, files[i])]
    IN  /\ \A i \in DOMAIN named :
              /\ \A j \in DOMAIN named[i] : ~MarkedFree(d, named[i][j])
              /\ Cardinality(Range(named[i])) = Len(named[i])
        /\ \A i, k \in DOMAIN named :
              i < k => Range(named[i]) \cap Range(named[k]) = {}

\* C12 as stated: after any allocate_sector, add_catalog_entry and
\* save_basic_program calls since format, every sector named by a listed file
\* is marked used and no sector is named twice, by one file or by two.
C12_ConsistentAfterAnyCalls == (origin = "format") => Consistent(data)

\* C12, restricted: the same after any allocate_sector and save_basic_program
\* calls since format, when the caller itself has made no add_catalog_entry
\* call (which stores whatever track and sector it is given).
C12_ConsistentAfterSaves == (origin = "format" /\ appends = 0) => Consistent(data)

\* Two programs are listed after three calls that gave out eight sectors
C12_Witness ==
    /\ origin = "format"
    /\ appends = 0
    /\ calls = 3
    /\ last.op = "save_basic_program"
    /\ last.ok
    /\ Len(allocated) = 8
    /\ Len(catalog(data)) = 2

\* The lines of the source that tokenize_basic accepts, in source order
AcceptedLines(source) == SelectSeq(SourceLines(source), Accepted)

\* The bytes of stream from offset lo up to offset hi, hi not included
Bytes(stream, lo, hi) == SubSeq(stream, lo + 1, hi)

\* The records lie one after the other in the stream from offset 0, each with
\* its token bytes after the four bytes of its head and one zero byte after them
RecordsInARow(stream, recs) ==
    \A k \in 1..Len(recs) :
        /\ recs[k].start = IF k = 1 THEN 0
                           ELSE recs[k - 1].start + 5 + Len(recs[k - 1].tokens)
        /\ Bytes(stream, recs[k].start + 4, recs[k].start + 4 + Len(recs[k].tokens))
              = recs[k].tokens
        /\ stream[recs[k].start + 4 + Len(recs[k].tokens) + 1] = 0

RECURSIVE FramedLength(_, _)
FramedLength(recs, n) ==
    IF n = 0 THEN 0 ELSE FramedLength(recs, n - 1) + 5 + Len(recs[n].tokens)

StreamFramed ==
    (tok.pc = "done") =>
        /\ Len(tok.recs) = Len(AcceptedLines(tok.source))
        /\ RecordsInARow(tok.result, tok.recs)
        /\ Len(tok.result) = FramedLength(tok.recs, Len(tok.recs)) + 2
        /\ Bytes(tok.result, Len(tok.result) - 2, Len(tok.result)) = <<0, 0>>
        /\ tok.result = tokenize_basic(tok.source)

\* C13: for any source text, empty text and text with only blank or malformed
\* lines included, the stream tokenize_basic returns is one record per
\* accepted line, each with one zero byte after its token bytes, then two zero
\* bytes; its length is the sum over the accepted lines of 5 + the number of
\* token bytes, plus 2
C13_StreamFraming == StreamFramed

C13_Witness ==
    /\ tok.pc = "done"
    /\ Len(SourceLines(tok.source)) = 5
    /\ Len(tok.recs) = 1
    /\ Len(tok.result) = 8

\* The source text 10 FOR I = 1 TO 10
ForLoopSource ==
    <<49, 48, 32, 70, 79, 82, 32, 73, 32, 61, 32, 49, 32, 84, 79, 32, 49, 48>>

\* The body of its record: the FOR token, a space, I, a space, the = token, a
\* space, the digit 1, a space, the TO token, a space, the digits 1 and 0
ForLoopBody ==
    <<TokenOf("FOR"), 32, 73, 32, TokenOf("="), 32, 49, 32, TokenOf("TO"), 32, 49, 48>>

ForLoopTokenized ==
    (tok.pc = "done" /\ tok.source = ForLoopSource) =>
        /\ TokenOf("FOR") = 129 /\ TokenOf("=") = 208 /\ TokenOf("TO") = 193
        /\ Len(tok.recs) = 1
        /\ tok.recs[1].line_num = 10
        /\ tok.recs[1].tokens = ForLoopBody
        /\ Bytes(tok.result, 4, 4 + Len(ForLoopBody)) = ForLoopBody
        /\ Bytes(tok.result, 4 + Len(ForLoopBody), Len(tok.result)) = <<0, 0, 0>>

\* C14: tokenizing 10 FOR I = 1 TO 10 gives one line record whose body starts
\* with the FOR token 0x81, holds the variable I as a character, the = token
\* 0xD0, the digits as characters and the TO token 0xC1, and ends with a zero
\* byte; the stream ends with two zero bytes
C14_ForLoopExample == ForLoopTokenized

C14_Witness ==
    /\ tok.pc = "done"
    /\ tok.source = ForLoopSource
    /\ tok.result = <<18, 8, 10, 0, 129, 32, 73, 32, 208, 32, 49, 32, 193, 32, 49, 48, 0, 0, 0>>

\* The 2-byte little-endian value at offset off of the stream
PointerAt(stream, off) == stream[off + 1] + 256 * stream[off + 2]

\* The address after record k: the running address when the line was framed,
\* plus 4, plus the token bytes, plus 1
AddressAfter(rec) == rec.address + 4 + Len(rec.tokens) + 1

PointersChain ==
    /\ tok.pc \in {"line", "scan", "done"} =>
          tok.acc.address = 2049 + Len(tok.acc.output)
    /\ \A k \in 1..Len(tok.recs) :
          /\ tok.recs[k].address = IF k = 1 THEN 2049 ELSE AddressAfter(tok.recs[k - 1])
          /\ AddressAfter(tok.recs[k]) = 2049 + tok.recs[k].start + 5 + Len(tok.recs[k].tokens)
          /\ AddressAfter(tok.recs[k]) < 65536 =>
                /\ PointerAt(tok.acc.output, tok.recs[k].start) = AddressAfter(tok.recs[k])
                /\ k > 1 => PointerAt(tok.acc.output, tok.recs[k].start)
                               > PointerAt(tok.acc.output, tok.recs[k - 1].start)

\* C15: the running address starts at 0x0801, and the 2-byte little-endian
\* pointer of every record is the running address + 4 + the token bytes + 1,
\* which is 0x0801 + the stream offset of the first byte after the record's
\* zero terminator; the pointers of successive records increase strictly, in
\* programs that stay below address 0x10000
C15_PointerChain == PointersChain

C15_Witness ==
    /\ tok.pc = "done"
    /\ Len(tok.recs) = 3
    /\ PointerAt(tok.result, 0) = 2049 + tok.recs[2].start
    /\ PointerAt(tok.result, tok.recs[2].start) = 2049 + tok.recs[3].start
    /\ PointerAt(tok.result, tok.recs[3].start) = 2049 + Len(tok.result) - 2
    /\ PointerAt(tok.result, tok.recs[3].start) \div 256 = 8

\* The keywords that are a case-insensitive prefix of the text
PrefixKeywords(text) ==
    {k \in DOMAIN BASIC_TOKENS :
        /\ Len(BASIC_TOKENS[k].text) <= Len(text)
        /\ upper(SubSeq(text, 1, Len(BASIC_TOKENS[k].text))) = BASIC_TOKENS[k].text}

LongestOf(ks) ==
    CHOOSE k \in ks : \A j \in ks : Len(BASIC_TOKENS[j].text) <= Len(BASIC_TOKENS[k].text)

\* What is left of the line at the scan position
Remaining == SubSeq(tok.line, tok.scan.i + 1, Len(tok.line))

\* A pass of the while loop of tokenize_line
ScanPass == tok.pc = "scan" /\ tok.scan.i < Len(tok.line) /\ tok'.pc = "scan" /\ tok' # tok

LongestKeywordOrChar ==
    (ScanPass /\ ~tok.scan.in_string /\ ~tok.scan.in_rem) =>
        LET ks == PrefixKeywords(Remaining)
            c == tok.line[tok.scan.i + 1]
        IN  IF ks # {}
            THEN /\ tok'.scan.output = Append(tok.scan.output, BASIC_TOKENS[LongestOf(ks)].token)
                 /\ tok'.scan.i = tok.scan.i + Len(BASIC_TOKENS[LongestOf(ks)].text)
            ELSE /\ tok'.scan.output = Append(tok.scan.output, IF IsAlpha(c) THEN UpperChar(c) ELSE c)
                 /\ tok'.scan.i = tok.scan.i + 1

\* C16: outside string and REM modes, at every scan position of a line body,
\* when some keyword of the table is a case-insensitive prefix of the rest of
\* the line then the token byte of the longest such keyword is emitted and the
\* position moves past that keyword's text; otherwise the character is emitted
\* as it is, in upper case when it is a letter, and the position moves by one
C16_LongestKeyword == [][LongestKeywordOrChar]_vars

C16_Witness ==
    /\ tok.pc = "scan"
    /\ tok.line = <<120, 65, 84, 78>>
    /\ tok.scan.i = 4
    /\ tok.scan.output = <<88, TokenOf("ATN")>>
    /\ PrefixKeywords(<<65, 84, 78>>) =
          {k \in DOMAIN BASIC_TOKENS : BASIC_TOKENS[k].name \in {"AT", "ATN"}}

\* The three characters REM in any case are next, outside a string and a REM
RemNext ==
    /\ ~tok.scan.in_string
    /\ ~tok.scan.in_rem
    /\ upper(SubSeq(Remaining, 1, Min(3, Len(Remaining)))) = <<82, 69, 77>>

RemStep ==
    /\ (ScanPass /\ RemNext) =>
          /\ tok'.scan.output = Append(tok.scan.output, 178)
          /\ tok'.scan.i = tok.scan.i + 3
          /\ tok'.scan.in_rem
    /\ (ScanPass /\ tok.scan.in_rem) =>
          /\ tok'.scan.in_rem
          /\ tok'.scan.output = Append(tok.scan.output, tok.line[tok.scan.i + 1])
          /\ tok'.scan.i = tok.scan.i + 1
    /\ (tok.pc = "line" /\ tok'.pc = "scan") => ~tok'.scan.in_rem

\* In REM mode the output ends with the REM token followed by the characters
\* of the line that came after the word REM, as they are
RemCopied ==
    (tok.pc = "scan" /\ tok.scan.in_rem) =>
        \E n \in 1..Len(tok.scan.output) :
            LET copied == Len(tok.scan.output) - n
            IN  /\ tok.scan.output[n] = 178
                /\ copied <= tok.scan.i - 3
                /\ SubSeq(tok.scan.output, n + 1, Len(tok.scan.output))
                      = SubSeq(tok.line, tok.scan.i - copied + 1, tok.scan.i)
                /\ upper(SubSeq(tok.line, tok.scan.i - copied - 2, tok.scan.i - copied))
                      = <<82, 69, 77>>

\* C17: once REM, in any case, is recognized outside a string, the REM token
\* is emitted and in_rem stays set for the rest of the line: every character
\* that follows is copied as its own code, case unchanged, and no keyword is
\* replaced by a token; in_rem is clear at the start of the next line
C17_RemMode == []RemCopied /\ [][RemStep]_vars

C17_Witness ==
    /\ tok.pc = "scan"
    /\ tok.line = <<114, 69, 109, 80, 82, 73, 78, 84, 120>>
    /\ tok.scan.i = 9
    /\ tok.scan.in_rem
    /\ tok.scan.output = <<178, 80, 82, 73, 78, 84, 120>>

\* The number of quote characters among the first n characters of the line
QuotesBefore(line, n) == Cardinality({p \in 1..n : line[p] = 34})

QuoteStep ==
    LET c == tok.line[tok.scan.i + 1]
    IN  /\ (ScanPass /\ c = 34) =>
              /\ tok'.scan.in_string = ~tok.scan.in_string
              /\ tok'.scan.output = Append(tok.scan.output, 34)
              /\ tok'.scan.i = tok.scan.i + 1
              /\ tok'.scan.in_rem = tok.scan.in_rem
        /\ (ScanPass /\ c # 34) => tok'.scan.in_string = tok.scan.in_string
        /\ (ScanPass /\ c # 34 /\ tok.scan.in_string) =>
              /\ tok'.scan.output = Append(tok.scan.output, c)
              /\ tok'.scan.i = tok.scan.i + 1
              /\ tok'.scan.in_rem = tok.scan.in_rem

\* in_string is set when the quotes passed so far are odd in number
QuoteParity ==
    (tok.pc = "scan") =>
        (tok.scan.in_string <=> QuotesBefore(tok.line, tok.scan.i) % 2 = 1)

\* C18: in_string is toggled by each quote character, and while it is set
\* every character is emitted as it is, case unchanged: no keyword inside a
\* string literal is replaced by a token byte and a REM inside a string
\* literal does not set in_rem
C18_StringMode == []QuoteParity /\ [][QuoteStep]_vars

C18_Witness ==
    /\ tok.pc = "scan"
    /\ tok.line = <<34, 82, 69, 77, 120>>
    /\ tok.scan.i = 5
    /\ tok.scan.in_string
    /\ ~tok.scan.in_rem
    /\ tok.scan.output = <<34, 82, 69, 77, 120>>

\* The lines joined again with a newline between them
RECURSIVE JoinLines(_, _)
JoinLines(lines, n) ==
    IF n = 0 THEN <<>>
    ELSE IF n = 1 THEN lines[1]
    ELSE JoinLines(lines, n - 1) \o <<10>> \o lines[n]

\* The source with its blank lines and its lines without a line number removed
WithoutSkipped(source) ==
    LET kept == SelectSeq(split_newline(source), Accepted)
    IN  JoinLines(kept, Len(kept))

SkippedLeaveNoTrace ==
    (tok.pc = "done") =>
        /\ tok.result = tokenize_basic(WithoutSkipped(tok.source))
        /\ Len(tok.recs) = Len(AcceptedLines(tok.source))
        /\ \A k \in 1..Len(tok.recs) :
              /\ tok.recs[k].line_num = IntValue(FirstPart(strip(AcceptedLines(tok.source)[k])))
              /\ tok.recs[k].tokens = tokenize_line(RestPart(strip(AcceptedLines(tok.source)[k])))

\* A line that is skipped leaves the output and the running address as they
\* were, and the loop goes on with the line after it
SkipGoesOn ==
    (tok.pc = "line" /\ tok.ln < Len(tok.lines) /\ ~Accepted(CurrentLine)) =>
        /\ tok'.pc = "line"
        /\ tok'.ln = tok.ln + 1
        /\ tok'.acc = tok.acc
        /\ tok'.recs = tok.recs

\* C19: blank lines and lines that do not begin with a number int() parses
\* are skipped silently: tokenizing does not fail because of them, and the
\* stream is byte for byte the stream of the same source with those lines
\* removed, the records of the accepted lines being in source order
C19_MalformedSkipped == []SkippedLeaveNoTrace /\ [][SkipGoesOn]_vars

C19_Witness ==
    /\ tok.pc = "done"
    /\ Len(SourceLines(tok.source)) = 6
    /\ WithoutSkipped(tok.source) = <<49, 48, 32, 65, 10, 50, 48, 32, 66, 10, 51, 48, 32, 67>>
    /\ Len(tok.recs) = 3
    /\ tok.result = tokenize_basic(<<49, 48, 32, 65, 10, 50, 48, 32, 66, 10, 51, 48, 32, 67>>)

\* The keywords whose token byte the server's annotation shows as another keyword
Misannotated ==
    {k \in DOMAIN BASIC_TOKENS : AnnotatedAs(BASIC_TOKENS[k].token) # BASIC_TOKENS[k].name}

\* C20: the byte-to-keyword mapping the consumers use is the tokenizer's table
\* reversed: no two keywords have one token byte, every token byte lies in
\* 0x80..0xEB, and for every keyword k of BASIC_TOKENS both TOKEN_TO_KEYWORD
\* and the APPLESOFT_TOKENS lookup of annotate_tokenized, applied to the token
\* byte of k, give k
C20_InverseMapping ==
    /\ \A j, k \in DOMAIN BASIC_TOKENS :
          BASIC_TOKENS[j].token = BASIC_TOKENS[k].token => j = k
    /\ \A k \in DOMAIN BASIC_TOKENS :
          /\ BASIC_TOKENS[k].token \in 128..235
          /\ TOKEN_TO_KEYWORD[BASIC_TOKENS[k].token] = BASIC_TOKENS[k].name
          /\ AnnotatedAs(BASIC_TOKENS[k].token) = BASIC_TOKENS[k].name
    /\ \A k \in 1..Len(tok.scan.output) :
          tok.scan.output[k] = TokenOf("=") => AnnotatedAs(tok.scan.output[k]) = "="

\* The part of it that holds: TOKEN_TO_KEYWORD is BASIC_TOKENS reversed, over
\* distinct bytes of 0x80..0xEA, and the annotation is right below 0xC8
C20_DiskToolsInverse ==
    /\ \A j, k \in DOMAIN BASIC_TOKENS :
          BASIC_TOKENS[j].token = BASIC_TOKENS[k].token => j = k
    /\ \A k \in DOMAIN BASIC_TOKENS :
          /\ BASIC_TOKENS[k].token \in 128..234
          /\ TOKEN_TO_KEYWORD[BASIC_TOKENS[k].token] = BASIC_TOKENS[k].name
    /\ {BASIC_TOKENS[k].token : k \in Misannotated} = 200..234
    /\ \A k \in 1..Len(tok.scan.output) :
          tok.scan.output[k] = TokenOf("=") => AnnotatedAs(tok.scan.output[k]) = ">"

C20_Witness ==
    /\ tok.pc = "scan"
    /\ tok.scan.output = <<88, TokenOf("=")>>
    /\ AnnotatedAs(TokenOf("=")) = ">"

\* The add_catalog_entry call that this step is, when its name has more than
\* 30 characters: it returns exactly when the same call with a short name
\* would; the 30 bytes of the name field are the first 30 characters in upper
\* case with the high bit set; the two bytes after them are the sector count;
\* no byte of the catalog sector outside the entry's 35 bytes has changed
LongNameCut ==
    (last'.op = "add_catalog_entry" /\ calls' = calls + 1 /\ Len(last'.arg.name) > 30) =>
        LET in == last'.arg
            short == add_catalog_entry(data, NameHello, in.type, in.track, in.sector, in.count)
        IN  /\ last'.ok <=> short.ok
            /\ ~last'.ok => last'.err = "catalog full" /\ data' = data
            /\ last'.ok =>
                  LET before == read_sector(data, last'.slot[1], last'.slot[2])
                      after == read_sector(data', last'.slot[1], last'.slot[2])
                      off == EntryOffset(last'.slot[3])
                  IN  /\ last'.slot = short.slot
                      /\ \A j \in 1..30 :
                            after[off + 3 + j] = UpperChar(in.name[j]) + 128
                      /\ after[off + 33 + 1] = in.count % 256
                      /\ after[off + 34 + 1] = (in.count \div 256) % 256
                      /\ \A k \in 1..BYTES_PER_SECTOR :
                            (k <= off \/ k > off + 35) => after[k] = before[k]

\* C21: add_catalog_entry with a name longer than 30 characters does not fail
\* and stores exactly the first 30 characters, upper-cased and with the high
\* bit set, in the 30-byte name field; the bytes after the name field (the
\* sector count at entry offsets 0x21-0x22 and the next slot) are not
\* overwritten by name characters
C21_LongNameTruncated == [][LongNameCut]_vars

C21_Witness ==
    /\ last.op = "add_catalog_entry"
    /\ last.ok
    /\ Len(last.arg.name) = 35
    /\ last.slot[3] < 6
    /\ LET sec == read_sector(data, last.slot[1], last.slot[2])
           off == EntryOffset(last.slot[3])
       IN  /\ sec[off + 3 + 30] = 51 + 128
           /\ sec[off + 33 + 1] = 44
           /\ sec[off + 34 + 1] = 1
           /\ sec[off + 35 + 1] = 0
    /\ Len(catalog(data)[Len(catalog(data))].name) = 30

\* Every sector of the two buffers holds the same bytes, and they are as long
SameBytes(d, e) ==
    /\ d.len = e.len
    /\ \A n \in 0..(TRACKS * SECTORS_PER_TRACK - 1) :
          SectorAt(d, n * BYTES_PER_SECTOR) = SectorAt(e, n * BYTES_PER_SECTOR)

\* The object that opened the image file holds the buffer that was saved to it
LoadedIsSaved ==
    (last.op = "open" /\ last.arg = <<ImageName>> /\ image.exists) =>
        /\ data = image.saved
        /\ SameBytes(data, image.saved)

\* A save leaves the bytes of the buffer in the file
SavedIsBuffer ==
    (last.op = "save" /\ last.ok) => image.exists /\ SameBytes(image.content, data)

\* C22: saving a volume and then loading the saved file gives a volume whose
\* byte buffer equals the saved one exactly, the zero padding of partly
\* filled sectors included, in any state reached by format, write_sector,
\* allocate_sector, add_catalog_entry and save_basic_program
C22_SaveLoadRoundTrip == LoadedIsSaved /\ SavedIsBuffer

C22_Witness ==
    /\ last.op = "open"
    /\ last.arg = <<ImageName>>
    /\ image.exists
    /\ calls = 3
    /\ origin = "image"
    /\ read_sector(data, 34, 15) = <<1, 2, 3>> \o Zeros(BYTES_PER_SECTOR - 3)
    /\ data = image.saved

\* The valid (track, sector) pairs
ValidPairs == (0..(TRACKS - 1)) \X (0..(SECTORS_PER_TRACK - 1))

\* The offset returned for a valid pair is taken back to the pair, its 256
\* bytes lie inside the buffer, and no other valid pair's 256 bytes overlap them
OffsetInverse ==
    (last.op = "ts_to_offset") =>
        /\ offset_to_ts(last.ret[1]) = last.arg
        /\ last.ret[1] >= 0
        /\ last.ret[1] + BYTES_PER_SECTOR <= DISK_SIZE
        /\ DISK_SIZE = 143360
        /\ \A p \in ValidPairs \ {last.arg} :
              \/ ts_to_offset(p[1], p[2]) + BYTES_PER_SECTOR <= last.ret[1]
              \/ last.ret[1] + BYTES_PER_SECTOR <= ts_to_offset(p[1], p[2])

\* The pair returned for the start of a sector is a valid pair and is taken
\* back to the offset
CoordinatesInverse ==
    (last.op = "offset_to_ts" /\ last.arg[1] \in SectorOffsets) =>
        /\ last.ret \in ValidPairs
        /\ ts_to_offset(last.ret[1], last.ret[2]) = last.arg[1]

\* A call on the result of the call before gives back that call's argument
BackAgain ==
    /\ (last.op = "ts_to_offset" /\ last'.op = "offset_to_ts" /\ last'.arg = last.ret)
          => last'.ret = last.arg
    /\ (last.op = "offset_to_ts" /\ last'.op = "ts_to_offset" /\ last'.arg = last.ret)
          => last'.ret = last.arg

AddressesInverse == OffsetInverse /\ CoordinatesInverse

\* C23: for all tracks 0..34 and sectors 0..15 offset_to_ts(ts_to_offset(track,
\* sector)) = (track, sector), for every sector-aligned offset of the volume
\* ts_to_offset(offset_to_ts(offset)) = offset, and distinct valid pairs map
\* to disjoint 256-byte ranges inside the buffer of 143,360 bytes
C23_AddressInverse == []AddressesInverse /\ [][BackAgain]_vars

C23_Witness ==
    /\ calls = 2
    /\ last.op = "offset_to_ts"
    /\ last.arg = <<143104>>
    /\ last.ret = <<34, 15>>

\* The catalog sectors reached from (track, sector) by following the next
\* pointers (bytes 1 and 2) until the track is 0, at most n of them
RECURSIVE ChainFrom(_, _, _, _)
ChainFrom(d, track, sector, n) ==
    IF track = 0 \/ n = 0 THEN <<>>
    ELSE <<<<track, sector>>>> \o
         ChainFrom(d, read_sector(d, track, sector)[2], read_sector(d, track, sector)[3], n - 1)

\* The catalog chain from the head the VTOC names
CatalogChain(d) ==
    ChainFrom(d, read_sector(d, VTOC_TRACK, VTOC_SECTOR)[2],
              read_sector(d, VTOC_TRACK, VTOC_SECTOR)[3], TRACKS * SECTORS_PER_TRACK)

FormattedCatalog ==
    (last.op = "format") =>
        /\ read_sector(data, VTOC_TRACK, VTOC_SECTOR)[2] = 17
        /\ read_sector(data, VTOC_TRACK, VTOC_SECTOR)[3] = 15
        /\ \A s \in 2..15 :
              /\ read_sector(data, 17, s)[2] = 17
              /\ read_sector(data, 17, s)[3] = s - 1
        /\ read_sector(data, 17, 1)[2] = 0
        /\ read_sector(data, 17, 1)[3] = 0
        /\ CatalogChain(data) = [k \in 1..15 |-> <<17, 16 - k>>]
        /\ \A s \in 1..15 : \A i \in 0..6 :
              read_sector(data, 17, s)[11 + 35 * i + 1] = 0

\* C24: after format the catalog head in the VTOC is (17, 15) and the catalog
\* is a descending linked list of exactly 15 sectors: the next pointer of each
\* sector s of 15..2 of track 17 is (17, s-1), that of sector 1 is (0, 0), and
\* all 7 entry slots of each of these sectors are empty (track byte 0)
C24_FormatCatalogChain == FormattedCatalog

C24_Witness ==
    /\ last.op = "format"
    /\ calls = 3
    /\ Len(CatalogChain(data)) = 15
    /\ CatalogChain(data)[15] = <<17, 1>>
    /\ read_sector(data, 0, 0) = ZeroSector

\* The sectors the free bitmap marks free
FreeMarked(d) ==
    LET vtoc == read_sector(d, VTOC_TRACK, VTOC_SECTOR)
    IN  {c \in AllSectors : Bit(vtoc[56 + 4 * c[1] + (c[2] \div 8) + 1], c[2] % 8) = 1}

FormatResets ==
    (last.op = "format") =>
        /\ data = format(BlankData, last.arg[1])
        /\ format(data, last.arg[1]) = data
        /\ catalog(data) = <<>>
        /\ Cardinality(FreeMarked(data)) = 544
        /\ allocate_sector(data).ok
        /\ allocate_sector(data).ret = <<18, 0>>

\* The call after a format: an allocate_sector returns (18, 0), a format with
\* the same volume number leaves the buffer as it is
AfterFormat ==
    (last.op = "format" /\ calls' = calls + 1) =>
        /\ last'.op = "allocate_sector" => last'.ok /\ last'.ret = <<18, 0>>
        /\ (last'.op = "format" /\ last'.arg = last.arg) => data' = data

\* C25: format resets the volume: for a given volume number the buffer after
\* format is the same whatever the buffer held before (files, allocations, a
\* loaded image), so after any format catalog() is empty, 544 sectors are
\* free and the next allocate_sector returns (18, 0); format applied twice
\* gives the buffer that format applied once gives
C25_FormatResets == []FormatResets /\ [][AfterFormat]_vars

C25_Witness ==
    /\ calls = 3
    /\ last.op = "allocate_sector"
    /\ last.ret = <<18, 0>>
    /\ allocated = <<<<18, 0>>>>
    /\ origin = "format"
    /\ image.filename = ImageName
    /\ Cardinality(FreeMarked(data)) = 543

\* The slots in use of the catalog chain: <<k, i>> is slot i of the k-th
\* sector of the chain, its track byte being neither 0 nor 0xFF
SlotsInUse(d) ==
    LET chain == CatalogChain(d)
    IN  {p \in (1..Len(chain)) \X (0..6) :
            read_sector(d, chain[p[1]][1], chain[p[1]][2])[11 + 35 * p[2] + 1] \notin {0, 255}}

\* The place of slot p among the slots in use, in chain order and, within a
\* sector, in ascending slot order
PlaceOf(p, slots) ==
    1 + Cardinality({q \in slots : q[1] < p[1] \/ (q[1] = p[1] /\ q[2] < p[2])})

ListsSlotsInUse ==
    (last.op = "catalog") =>
        LET chain == CatalogChain(data)
            slots == SlotsInUse(data)
        IN  /\ Len(last.ret) = Cardinality(slots)
            /\ \A p \in slots :
                  LET sec == read_sector(data, chain[p[1]][1], chain[p[1]][2])
                      off == 11 + 35 * p[2]
                      e == last.ret[PlaceOf(p, slots)]
                  IN  /\ e.ts_track = sec[off + 1]
                      /\ e.ts_sector = sec[off + 2]
                      /\ e.raw_type = sec[off + 3]
                      /\ e.sectors = sec[off + 34] + 256 * sec[off + 35]
                      /\ \A j \in 1..Len(e.name) : e.name[j] = sec[off + 3 + j] % 128

CatalogReadsOnly == (last'.op = "catalog" /\ calls' = calls + 1) => data' = data

\* C26: catalog() starts at the catalog head of the VTOC, follows the next
\* pointers and stops when the pointer is (0, 0); it returns exactly the slots
\* whose track byte is neither 0 (empty) nor 0xFF (deleted), in chain order
\* and, within a sector, in ascending slot order, and it does not modify the
\* volume
C26_CatalogListing == []ListsSlotsInUse /\ [][CatalogReadsOnly]_vars

C26_Witness ==
    /\ last.op = "catalog"
    /\ Len(last.ret) = 99
    /\ last.ret[1].ts_track = 18
    /\ last.ret[2].ts_track = 20
    /\ last.ret[2].locked
    /\ last.ret[3].ts_track = 18
    /\ read_sector(data, 17, 15)[11 + 35 + 1] = 255

\* The byte of the VTOC that holds the bitmap bit of (track, sector), 1-based,
\* and the place of the bit in it
BitmapByte(track, sector) == 56 + track * 4 + (sector \div 8) + 1
BitmapBit(sector) == sector % 8

\* Every sector but the VTOC is the same in the two buffers, which have the
\* same length
SameButVtoc(d, e) ==
    /\ d.len = e.len
    /\ \A n \in 0..(TRACKS * SECTORS_PER_TRACK - 1) :
          n # VTOC_TRACK * SECTORS_PER_TRACK + VTOC_SECTOR =>
              SectorAt(d, n * BYTES_PER_SECTOR) = SectorAt(e, n * BYTES_PER_SECTOR)

OneBitCleared(old, new, track, sector) ==
    LET b == BitmapByte(track, sector)
        k == BitmapBit(sector)
    IN  /\ Bit(old[b], k) = 1
        /\ Bit(new[b], k) = 0
        /\ new[b] = old[b] - 2 ^ k
        /\ \A i \in 1..BYTES_PER_SECTOR : i # b => new[i] = old[i]

AllocateFrame ==
    (last'.op = "allocate_sector" /\ calls' = calls + 1) =>
        IF last'.ok
        THEN /\ OneBitCleared(read_sector(data, VTOC_TRACK, VTOC_SECTOR),
                              read_sector(data', VTOC_TRACK, VTOC_SECTOR),
                              last'.ret[1], last'.ret[2])
             /\ SameButVtoc(data, data')
        ELSE /\ last'.err = "disk full"
             /\ SameButVtoc(data, data')
             /\ read_sector(data', VTOC_TRACK, VTOC_SECTOR)
                    = read_sector(data, VTOC_TRACK, VTOC_SECTOR)

\* C27: a successful allocate_sector changes exactly one bit of the whole
\* volume, the bitmap bit of the returned (track, sector), from 1 to 0; every
\* other byte of the VTOC and every other sector is unchanged; a failed
\* allocate_sector (disk full) changes nothing
C27_AllocateFrame == [][AllocateFrame]_vars

\* The first sector of track 19 has been allocated: its bit is cleared, the
\* other fifteen are set, and the catalog head, the version, the volume number
\* and the last-allocated track of the VTOC are as format left them
C27_Witness ==
    /\ last.op = "allocate_sector"
    /\ last.ok
    /\ last.ret = <<19, 0>>
    /\ LET vtoc == read_sector(data, VTOC_TRACK, VTOC_SECTOR)
       IN  /\ vtoc[BitmapByte(19, 0)] = 254
           /\ vtoc[BitmapByte(19, 8)] = 255
           /\ vtoc[2] = CATALOG_TRACK
           /\ vtoc[4] = 3
           /\ vtoc[7] = 254
           /\ vtoc[49] = 18

\* The number of 256-byte sectors that n bytes need
SectorsFor(n) == (n + 255) \div 256

\* The k-th pair (k = 1, 2, ...) of an index sector: the bytes at the offsets
\* 0x0C + 2 * (k - 1) and the next
PairAt(index, k) == <<index[12 + 2 * (k - 1) + 1], index[12 + 2 * (k - 1) + 2]>>

\* The byte at place i (1-based) of the concatenation of the sectors that the
\* first pairs of the index sector name, read from the buffer d
FileByte(d, index, i) ==
    LET k == (i - 1) \div 256 + 1
    IN  read_sector(d, PairAt(index, k)[1], PairAt(index, k)[2])[((i - 1) % 256) + 1]

\* The file of n data sectors under the index sector holds the payload and
\* then zeros only
HoldsPayload(d, index, n, payload) ==
    \A i \in 1..(256 * n) :
        FileByte(d, index, i) = IF i <= Len(payload) THEN payload[i] ELSE 0

\* The index sector has n pairs from 0x0C on, none of them on the catalog
\* track or repeated, and zeros everywhere else
PairsThenZeros(index, n) ==
    /\ \A i \in 1..256 : (i <= 12 \/ i > 12 + 2 * n) => index[i] = 0
    /\ \A k \in 1..n : PairAt(index, k)[1] # CATALOG_TRACK
    /\ \A j, k \in 1..n : j # k => PairAt(index, j) # PairAt(index, k)

IndexAndData ==
    (last.op = "save_basic_program" /\ last.ok) =>
        LET payload == ProgramBytes(last.arg[2])
            n == SectorsFor(Len(payload))
            index == read_sector(data, last.allocs[1][1], last.allocs[1][2])
        IN  /\ last.ret = n + 1
            /\ PairsThenZeros(index, n)
            /\ HoldsPayload(data, index, n, payload)

\* C28: after a successful save_basic_program the index sector of the file
\* holds the (track, sector) pairs of its data sectors in payload order at
\* consecutive 2-byte offsets from 0x0C, followed by zeros, and the data
\* sectors read in that order and concatenated give the payload followed only
\* by zero padding up to a multiple of 256 bytes
C28_IndexAndData == []IndexAndData

\* A program of 257 bytes saved on a volume with 104 entries: two pairs, the
\* second data sector holding one byte of the payload
C28_Witness ==
    /\ last.op = "save_basic_program"
    /\ last.ok
    /\ last.arg[2] = 257
    /\ appends = PreEntries
    /\ LET index == read_sector(data, last.allocs[1][1], last.allocs[1][2])
       IN  /\ PairAt(index, 1) = <<18, 1>>
           /\ PairAt(index, 2) = <<18, 2>>
           /\ PairAt(index, 3) = <<0, 0>>
           /\ read_sector(data, 18, 2)[1] = ProgramBytes(257)[257]
           /\ read_sector(data, 18, 1)[255] # 0

\* The call wrote its data sectors in the order it allocated them and then the
\* sector it allocated first, and the catalog slot it filled holds the
\* coordinates of that sector and the type byte of an Applesoft program; a
\* call that raised filled no slot
IndexFirstAndLast ==
    (last'.op = "save_basic_program" /\ calls' = calls + 1) =>
        IF last'.ok
        THEN LET index == last'.allocs[1]
                 sec == read_sector(data', last'.slot[1], last'.slot[2])
                 off == EntryOffset(last'.slot[3])
                 pairs == read_sector(data', index[1], index[2])
             IN  /\ last'.writes = Tail(last'.allocs) \o <<index>>
                 /\ \A k \in 1..(Len(last'.allocs) - 1) :
                       <<pairs[12 + 2 * (k - 1) + 1], pairs[12 + 2 * (k - 1) + 2]>>
                           = last'.allocs[k + 1]
                 /\ sec[off + 1] = index[1]
                 /\ sec[off + 2] = index[2]
                 /\ sec[off + 3] = FILE_TYPE_APPLESOFT_BASIC
        ELSE last'.slot = <<>>

\* catalog() lists the file under the coordinates of its index sector, as an
\* unlocked file of type 'A'
ListedAsApplesoft ==
    (last'.op = "save_basic_program" /\ calls' = calls + 1 /\ last'.ok) =>
        LET after == catalog(data')
        IN  \E k \in 1..Len(after) :
                /\ after[k].ts_track = last'.allocs[1][1]
                /\ after[k].ts_sector = last'.allocs[1][2]
                /\ after[k].type = "A"
                /\ ~after[k].locked

\* The first save on a freshly formatted volume gets the sectors (18, 0),
\* (18, 1), ... and on into track 19, in order
FirstFileFrom18 ==
    (last'.op = "save_basic_program" /\ calls' = calls + 1 /\ last'.ok
        /\ data = Fresh.data) =>
        \A k \in 1..Len(last'.allocs) :
            last'.allocs[k] = <<18 + ((k - 1) \div 16), (k - 1) % 16>>

\* C29: in every save_basic_program call the index sector is the first sector
\* allocated and the last sector written, after all data sectors, and the
\* catalog entry is written only after the index sector; the entry stores the
\* coordinates of the index sector with type Applesoft and is listed as 'A',
\* unlocked; on a freshly formatted volume the first file has its index at
\* (18, 0) and its data sectors at (18, 1), (18, 2), ... in order
C29_IndexFirstWrittenLast ==
    [][IndexFirstAndLast /\ ListedAsApplesoft /\ FirstFileFrom18]_vars

\* The order of the allocations and writes and the bytes of the entry, without
\* the listing
C29_OrderAndEntryBytes == [][IndexFirstAndLast /\ FirstFileFrom18]_vars

\* A save returned with its index sector on track 0, and catalog() lists no
\* file with an index sector there
C29_Witness ==
    /\ last.op = "save_basic_program"
    /\ last.ok
    /\ last.allocs[1][1] = 0
    /\ last.writes[Len(last.writes)] = last.allocs[1]
    /\ \A k \in 1..Len(catalog(data)) : catalog(data)[k].ts_track # 0

\* Every file catalog() lists has at most 123 sectors, and its index sector
\* has the pointer (0, 0) to a next track/sector list and its first pair at 0x0C
OneIndexSector ==
    LET files == catalog(data)
    IN  \A k \in 1..Len(files) :
            LET index == read_sector(data, files[k].ts_track, files[k].ts_sector)
            IN  /\ files[k].sectors <= 123
                /\ index[1] = 0
                /\ index[2] = 0
                /\ index[13] # CATALOG_TRACK

\* A save that returns has written at most 122 data sectors; a save of a
\* program that needs 123 or more raises and leaves catalog() as it was
CappedSave ==
    (last'.op = "save_basic_program" /\ calls' = calls + 1) =>
        /\ last'.ok =>
              /\ last'.ret <= 123
              /\ Len(last'.allocs) - 1 <= 122
              /\ last'.arg[2] <= 122 * 256
              /\ read_sector(data', last'.allocs[1][1], last'.allocs[1][2])[1] = 0
              /\ read_sector(data', last'.allocs[1][1], last'.allocs[1][2])[2] = 0
        /\ last'.arg[2] > 122 * 256 =>
              /\ ~last'.ok
              /\ last'.slot = <<>>
              /\ catalog(data') = catalog(data)
              /\ \A n \in 0..(SECTORS_PER_TRACK - 1) :
                    read_sector(data', CATALOG_TRACK, n) = read_sector(data, CATALOG_TRACK, n)
                    \/ n = VTOC_SECTOR

\* C30: save_basic_program never writes a continuation of the track/sector
\* list: every file it creates has at most 122 data sectors (a sector count of
\* at most 123) and an index sector whose continuation pointer is (0, 0); a
\* call whose payload needs 123 or more data sectors does not complete and
\* adds no catalog entry
C30_OneIndexSector == []OneIndexSector /\ [][CappedSave]_vars

\* A program of 122 sectors is listed with 123, its last pair at the end of
\* the index sector, and the save of a program one byte longer has raised on
\* the 123rd pair after its allocation
C30_Witness ==
    /\ last.op = "save_basic_program"
    /\ ~last.ok
    /\ last.err = "index"
    /\ last.arg[2] = 122 * 256 + 1
    /\ Len(last.allocs) = 124
    /\ Len(catalog(data)) = 1
    /\ catalog(data)[1].sectors = 123
    /\ read_sector(data, 18, 0)[255] # 0

\* The slots of the catalog chain whose track byte is 0x00 or 0xFF: <<k, i>> is
\* slot i of the k-th sector of the chain
SlotsFree(d) ==
    LET chain == CatalogChain(d)
    IN  {p \in (1..Len(chain)) \X (0..6) :
            read_sector(d, chain[p[1]][1], chain[p[1]][2])[11 + 35 * p[2] + 1] \in {0, 255}}

\* The first of a set of slots, in chain order and ascending slot order
FirstSlot(slots) ==
    CHOOSE p \in slots :
        \A q \in slots : p[1] < q[1] \/ (p[1] = q[1] /\ p[2] <= q[2])

\* The two buffers differ at most in the 35 bytes of slot i of sector
\* (track, sector)
SameButSlot(d, e, track, sector, i) ==
    /\ d.len = e.len
    /\ \A n \in 0..(TRACKS * SECTORS_PER_TRACK - 1) :
          n # track * SECTORS_PER_TRACK + sector =>
              SectorAt(d, n * BYTES_PER_SECTOR) = SectorAt(e, n * BYTES_PER_SECTOR)
    /\ \A k \in 1..BYTES_PER_SECTOR :
          (k <= 11 + 35 * i \/ k > 11 + 35 * i + 35) =>
              read_sector(d, track, sector)[k] = read_sector(e, track, sector)[k]

AppendsInFirstFreeSlot ==
    (last'.op = "add_catalog_entry" /\ calls' = calls + 1) =>
        LET chain == CatalogChain(data)
            free == SlotsFree(data)
        IN  /\ last'.ok <=> free # {}
            /\ last'.ok =>
                  LET p == FirstSlot(free)
                      track == chain[p[1]][1]
                      sector == chain[p[1]][2]
                  IN  /\ last'.slot = <<track, sector, p[2]>>
                      /\ read_sector(data, track, sector)[11 + 35 * p[2] + 1] \in {0, 255}
                      /\ read_sector(data', track, sector)[11 + 35 * p[2] + 1] = last'.arg.track
                      /\ SameButSlot(data, data', track, sector, p[2])

\* C31: add_catalog_entry writes the new entry into the first slot, in chain
\* order and ascending slot order, whose track byte is 0x00 (empty) or 0xFF
\* (deleted), so a deleted slot earlier in the chain is reused before a later
\* empty slot; it modifies only the 35 bytes of that slot and never overwrites
\* a slot that holds a live entry
C31_FirstFreeSlotOnly == [][AppendsInFirstFreeSlot]_vars

\* The entry went into the deleted slot 1 of sector (17, 15), before the empty
\* slot 2, between the live entries of the slots 0 and 3
C31_Witness ==
    /\ last.op = "add_catalog_entry"
    /\ last.ok
    /\ last.slot = <<17, 15, 1>>
    /\ LET sec == read_sector(data, 17, 15)
       IN  /\ sec[11 + 1] = 18
           /\ sec[11 + 35 + 1] = 18
           /\ sec[11 + 70 + 1] = 0
           /\ sec[11 + 105 + 1] = 20

\* The catalog head of the VTOC and the next pointer of every sector of
\* track 17, as a function of the sector
ChainPointers(d) ==
    [s \in 0..(SECTORS_PER_TRACK - 1) |->
        <<read_sector(d, CATALOG_TRACK, s)[2], read_sector(d, CATALOG_TRACK, s)[3]>>]

\* The 15 catalog sectors format links: (17, 15), (17, 14), ..., (17, 1)
FormatChain == [k \in 1..15 |-> <<CATALOG_TRACK, 16 - k>>]

\* On a formatted volume the catalog chain is the one format made, and it
\* ends with the pointer (0, 0)
ChainAsFormatted ==
    (origin = "format") =>
        /\ ChainPointers(data)[VTOC_SECTOR] = <<CATALOG_TRACK, FIRST_CATALOG_SECTOR>>
        /\ CatalogChain(data) = FormatChain
        /\ ChainPointers(data)[1] = <<0, 0>>

\* No allocate_sector, add_catalog_entry or save_basic_program call, returning
\* or raising, changes the catalog head or a next pointer
PointersKept ==
    (last'.op \in {"allocate_sector", "add_catalog_entry", "save_basic_program"}
        /\ calls' = calls + 1) =>
        ChainPointers(data') = ChainPointers(data)

\* C32: no sequence of allocate_sector, add_catalog_entry and
\* save_basic_program calls after format modifies the catalog head of the VTOC
\* or the next pointer of a catalog sector, so on every volume reachable from
\* format catalog() and add_catalog_entry visit at most the 15 catalog sectors
\* of track 17 and stop
C32_ChainFixed == []ChainAsFormatted /\ [][PointersKept]_vars

\* The last slot of the last catalog sector has been filled and the chain is
\* as format made it
C32_Witness ==
    /\ origin = "format"
    /\ last.op = "add_catalog_entry"
    /\ last.ok
    /\ last.slot = <<17, 1, 6>>
    /\ calls = 3
    /\ Len(CatalogChain(data)) = 15
    /\ ChainPointers(data)[15] = <<17, 14>>

\* The number of sectors the bitmap marks free
FreeCount(d) == Cardinality(FreeMarked(d))

\* No call but format frees a sector, and an allocate_sector call that returns
\* takes exactly one sector, the one it returns, out of the free set
FreeOnlyShrinks ==
    (last'.op \in {"allocate_sector", "add_catalog_entry", "save_basic_program"}
        /\ calls' = calls + 1) =>
        /\ FreeMarked(data') \subseteq FreeMarked(data)
        /\ (last'.op = "allocate_sector" /\ last'.ok) =>
              /\ FreeCount(data') = FreeCount(data) - 1
              /\ FreeMarked(data) \ FreeMarked(data') = {last'.ret}
        /\ (last'.op = "add_catalog_entry") => FreeMarked(data') = FreeMarked(data)

\* No sector of track 17 is marked free
Track17Used == \A s \in 0..(SECTORS_PER_TRACK - 1) : ~MarkedFree(data, <<CATALOG_TRACK, s>>)

\* C33: between two formats the set of free sectors only shrinks: no
\* allocate_sector, add_catalog_entry or save_basic_program call sets a bitmap
\* bit back to 1, every successful allocate_sector lowers the number of free
\* sectors by exactly 1, and the bitmap bits of track 17 are 0 in every
\* reachable state
C33_FreeOnlyShrinks == []Track17Used /\ [][FreeOnlyShrinks]_vars

\* Three allocations on a fresh volume have left 541 sectors free
C33_Witness ==
    /\ origin = "format"
    /\ calls = 3
    /\ last.op = "allocate_sector"
    /\ last.ret = <<18, 2>>
    /\ FreeCount(data) = 541
    /\ Track17Used

\* The buffer of a new or nonexistent image: DISK_SIZE bytes, all zero
AllZero(d) ==
    /\ d.len = DISK_SIZE
    /\ \A n \in 0..(TRACKS * SECTORS_PER_TRACK - 1) :
          SectorAt(d, n * BYTES_PER_SECTOR) = ZeroSector

\* What each call does on the all-zero buffer
BlankVolumeCalls ==
    (AllZero(data) /\ calls' = calls + 1) =>
        /\ (last'.op = "catalog") => (last'.ret = <<>> /\ AllZero(data'))
        /\ (last'.op = "allocate_sector") =>
              (~last'.ok /\ last'.err = "disk full" /\ AllZero(data'))
        /\ (last'.op = "add_catalog_entry") =>
              (~last'.ok /\ last'.err = "catalog full" /\ AllZero(data'))
        /\ (last'.op = "save_basic_program") =>
              (~last'.ok /\ last'.err = "disk full" /\ AllZero(data'))

\* The object made for a missing image file holds the all-zero buffer
MissingImageIsBlank ==
    (last'.op = "open" /\ calls' = calls + 1 /\ ~(last'.arg[1] # "" /\ image.exists)) =>
        AllZero(data')

\* C34: on a blank volume that was never formatted (the all-zero buffer given
\* for a new or nonexistent image) catalog() returns the empty list,
\* allocate_sector fails with disk full, add_catalog_entry fails with catalog
\* full and save_basic_program fails with disk full; none of these calls
\* changes the buffer
C34_BlankVolumeCalls == [][BlankVolumeCalls /\ MissingImageIsBlank]_vars

\* Two calls have raised on the blank buffer and catalog() has returned the
\* empty list
C34_Witness ==
    /\ origin = "blank"
    /\ AllZero(data)
    /\ calls = 3
    /\ fails = 2
    /\ last.op = "catalog"
    /\ last.ret = <<>>

\* --- C35
\* The lines the call sent to the process that are the continue command
Continues(e) == {i \in DOMAIN e.sent : e.sent[i] = "c"}

\* Every 'c' of the last call went out with in_debugger set
ContinueOnlyInDebugger ==
    /\ Cardinality(Continues(emu)) = Len(emu.conts)
    /\ \A i \in DOMAIN emu.conts : emu.conts[i]

\* An exit_debugger that returned returned True and left in_debugger False
ExitLeavesFlagDown ==
    (emu.op = "exit_debugger" /\ emu.exc = "") => (emu.ret = "True" /\ ~emu.in_debugger)

\* An inject_keys that sent the keys command never called exit_debugger and
\* sent no 'c', and unless EOF cut it short it left in_debugger False
KeysDropsFlagItself ==
    (emu.op = "inject_keys" /\ \E i \in DOMAIN emu.sent : emu.sent[i] = "keys text")
        => /\ emu.exits = 0
           /\ Continues(emu) = {}
           /\ emu.exc # "EOF" => ~emu.in_debugger

\* A step that is exit_debugger called with in_debugger False sends nothing,
\* returns True and changes no field
ExitOutsideDebugger ==
    (emu'.op = "exit_debugger" /\ ~emu.in_debugger)
        => (emu'.sent = <<>> /\ emu'.ret = "True" /\ Fields(emu') = Fields(emu))

\* C35: the continue command 'c' is sent to the process only while
\* in_debugger is True: exit_debugger called with in_debugger False sends
\* nothing and returns True, an exit_debugger that returns leaves in_debugger
\* False, and inject_keys on its debugger path sets in_debugger False itself
\* after the keys command without calling exit_debugger.
C35_ContinueOnlyInDebugger ==
    /\ [](ContinueOnlyInDebugger /\ ExitLeavesFlagDown /\ KeysDropsFlagItself)
    /\ [][ExitOutsideDebugger]_vars

\* exit_debugger has sent 'c' from inside the debugger and returned
C35_Witness ==
    /\ emu.op = "exit_debugger"
    /\ emu.sent = <<"c">>
    /\ emu.conts = <<TRUE>>
    /\ emu.ret = "True"
    /\ ~emu.in_debugger

\* --- C36
\* The fields after a shutdown that came back
CleanAfterShutdown ==
    emu.op = "shutdown"
        => /\ emu.exc = ""
           /\ emu.process = "none"
           /\ ~is_running(emu)
           /\ ~emu.in_debugger
           /\ ~emu.control_socket

\* A boot that follows a shutdown has nothing to stop: it sends no quit, no
\* Ctrl-C and no 'q', kills nothing, holds the process it started, and its
\* in_debugger is False and its control socket a new one, also when it raises
BootFromClean ==
    (emu.op = "shutdown" /\ emu'.op = "boot")
        => /\ emu'.sent = <<>>
           /\ emu'.enters = 0
           /\ ~emu'.killed
           /\ emu'.process # "none"
           /\ ~emu'.in_debugger
           /\ emu'.sock \in {<<>>, <<"ping">>}
           /\ emu'.control_socket => emu'.sock = <<"ping">>

\* C36: after Emulator.shutdown() returns, whatever the graceful quit met
\* (a control-socket error, no way into the debugger, no EOF in time), the
\* object holds no process, in_debugger is False and control_socket is None,
\* and a boot() that follows starts from that clean state.
C36_CleanAfterShutdown == []CleanAfterShutdown /\ [][BootFromClean]_vars

\* shutdown met a control-socket quit, three attempts at the debugger that
\* all timed out and a process that did not exit on 'q', and killed it
C36_Witness ==
    /\ emu.op = "shutdown"
    /\ emu.sock = <<"quit">>
    /\ emu.sent = <<"^C", "^C", "^C", "^C", "^C", "^C", "q">>
    /\ emu.killed
    /\ emu.process = "none"

\* --- C37
\* The number of Ctrl-C a call sent
CtrlCs(e) == Cardinality({i \in DOMAIN e.sent : e.sent[i] = "^C"})

\* Every Ctrl-C of the call has its twin next to it
InPairs(e) ==
    \A i \in DOMAIN e.sent :
        e.sent[i] = "^C" =>
            LET before == Cardinality({j \in 1..(i - 1) : e.sent[j] = "^C"})
            IN  IF before % 2 = 0
                THEN i < Len(e.sent) /\ e.sent[i + 1] = "^C"
                ELSE e.sent[i - 1] = "^C"

\* enter_debugger made at most max_retries attempts of two Ctrl-C each, and
\* returned True only with in_debugger set
BoundedAttempts ==
    emu.op = "enter_debugger"
        => /\ CtrlCs(emu) <= 2 * emu.retries
           /\ InPairs(emu)
           /\ emu.ret = "True" => emu.in_debugger
           /\ (emu.ret = "False" /\ emu.retries >= 1)
                  => (~emu.in_debugger /\ CtrlCs(emu) = 2 * emu.retries)

\* Called now on a running emulator with max_retries >= 1, enter_debugger
\* returns False with in_debugger False after 2 * max_retries Ctrl-C
\* whenever every attempt times out without the prompt
GivesUp ==
    is_running(emu) =>
        \A max_retries \in 1..MaxRetries, env \in EnterEnvs(emu) :
            (env.verify = "timeout" /\ env.timeouts >= max_retries) =>
                LET r == enter_debugger(Begin(emu), max_retries, env)
                IN  /\ r.exc = "" /\ r.ret = "False"
                    /\ ~r.e.in_debugger
                    /\ CtrlCs(r.e) = 2 * max_retries

\* Called now outside the debugger, debugger_command raises BobbinError and
\* sends nothing but the Ctrl-C whenever every attempt of its enter_debugger
\* times out
CommandNotSent ==
    (is_running(emu) /\ ~emu.in_debugger) =>
        \A cmd \in {"addr", "c"}, stay_in_debugger \in BOOLEAN, env \in CommandEnvs(emu) :
            env.timeouts >= DefaultRetries =>
                LET r == debugger_command(Begin(emu), cmd, stay_in_debugger, env)
                IN  /\ r.exc = "BobbinError"
                    /\ CtrlCs(r.e) = Len(r.e.sent)
                    /\ ~r.e.in_debugger

\* A debugger_command that returned has sent its command from inside the
\* debugger, and one that found no way in has sent no line at all
CommandOnlyInside ==
    emu.op = "debugger_command"
        => /\ emu.exc = "" => CtrlCs(emu) < Len(emu.sent)
           /\ (emu.exc = "BobbinError" /\ emu.process = "alive" /\ emu.exits = 0
                  /\ CtrlCs(emu) = 2 * DefaultRetries)
                 => (CtrlCs(emu) = Len(emu.sent) /\ ~emu.in_debugger)

\* C37: enter_debugger on a running emulator makes at most max_retries
\* attempts, each sending Ctrl-C twice, and then stops; it returns True only
\* with in_debugger True; when every attempt times out without the prompt it
\* returns False with in_debugger False (max_retries >= 1); and
\* debugger_command turns that False into a BobbinError without sending the
\* command.
C37_BoundedRetries == BoundedAttempts /\ GivesUp /\ CommandNotSent /\ CommandOnlyInside

\* enter_debugger with max_retries 3 has sent six Ctrl-C, seen no prompt and
\* returned False
C37_Witness ==
    /\ emu.op = "enter_debugger"
    /\ emu.retries = 3
    /\ emu.process = "alive"
    /\ emu.sent = <<"^C", "^C", "^C", "^C", "^C", "^C">>
    /\ emu.ret = "False"
    /\ ~emu.in_debugger

\* --- C38
\* The methods that have a control-socket path and a debugger path
SocketMethods ==
    {"peek", "poke", "load", "read_screen", "inject_keys", "reset", "get_registers"}

\* A step that is one of them called with a control socket held sends nothing
\* to the process, enters no debugger, leaves every field as it was, and
\* raises no ControlSocketError
SocketOnly ==
    (emu.control_socket /\ emu'.op \in SocketMethods)
        => /\ emu'.sent = <<>>
           /\ emu'.enters = 0
           /\ emu'.exits = 0
           /\ Fields(emu') = Fields(emu)
           /\ emu'.exc \in {"", "BobbinError", "TypeError"}
           /\ emu'.exc = "" => emu'.sock # <<>>

\* What a method makes of a socket command answered by an error: BobbinError,
\* with nothing sent to the process and in_debugger as it was
SurfacedBy(r) ==
    /\ r.exc = "BobbinError"
    /\ r.e.sent = <<>>
    /\ r.e.enters = 0
    /\ r.e.in_debugger = emu.in_debugger

\* Called now with a control socket held whose command fails, each of the
\* methods raises BobbinError and leaves the debugger alone
ErrorsSurfaced ==
    emu.control_socket =>
        \A env \in SockEnvs :
            (env.sock = "error" /\ env.resume # "other") =>
                /\ SurfacedBy(peek(Begin(emu), env))
                /\ SurfacedBy(poke(Begin(emu), env))
                /\ SurfacedBy(load(Begin(emu), env))
                /\ SurfacedBy(read_screen(Begin(emu), env))
                /\ SurfacedBy(inject_keys(Begin(emu), env))
                /\ SurfacedBy(reset(Begin(emu), env))
                /\ SurfacedBy(get_registers(Begin(emu), env))

\* C38: while a control socket is connected, peek, poke, load, read_screen,
\* inject_keys, reset and get_registers use only the socket: no Ctrl-C is
\* sent, in_debugger is unchanged, and a ControlSocketError comes out as a
\* BobbinError instead of a fall back to the debugger path.
C38_SocketOnly == []ErrorsSurfaced /\ [][SocketOnly]_vars

\* peek met a control-socket error with in_debugger set: it raised
\* BobbinError, sent nothing to the process and left the flag set
C38_Witness ==
    /\ emu.op = "peek"
    /\ emu.control_socket
    /\ emu.sock = <<"peek">>
    /\ emu.exc = "BobbinError"
    /\ emu.sent = <<>>
    /\ emu.in_debugger

====
